---------------------------- MODULE Spec2Model ----------------------------
(***************************************************************************)
(* Hazard-pointer reclamation (src/hazard_ptr.h, src/hazard_ptr.cc), the   *)
(* Michael-Scott queue built on it (src/queue_hazard.h) and the sorted     *)
(* list-map (src/sortedlistmap.h), as one interleaving state machine.      *)
(*                                                                         *)
(* Every access to a shared word (a root pointer, a node's next field, a   *)
(* hazard slot of another record, the heap) is one step.  The atomic shim  *)
(* (src/atomic.h) is x86 only: every CAS is a locked instruction, every    *)
(* slot publication that is relied upon is followed by an mfence or by a   *)
(* locked CAS before the validating read, so steps are sequentially        *)
(* consistent.  Accesses of a thread to its own hazard slots and to its    *)
(* own retirement queue are merged into the neighbouring step.             *)
(***************************************************************************)
EXTENDS Integers, Sequences, FiniteSets, Bags, TLC

\* ------------------------------------------------------------------ bounds
NumAddrs == 4            \* heap addresses available to node allocation
MaxOps == 3              \* operations the first thread of the queue program invokes
NumLoops == 2            \* loop_count of the ping-pong driver (10,000,000 in main)
MaxRetired == 3          \* items of the queue a flush with raising deleters works on
NumKeys == 2             \* keys of the list-map programs: 1..NumKeys
MaxMapOps == 2           \* operations the first thread of the map program invokes
MaxSeqOps == 3           \* operations of the single-threaded map program
MaxRecords == 3          \* hazard records the registry program may create
MaxObjs == 2             \* objects the threads of the registry program protect and retire
FlushSize == 2           \* HAZARD_FLUSH_SIZE as the registry program is compiled
LoopKey == 1             \* the key the threads of the looping map program work on
HAZARD_FLUSH_SIZE == 1   \* compile-time knob (#ifndef); 16 by default

\* ------------------------------------------------------- program constants
num_thread == 2          \* queue_hazard_main.cc: int num_thread = 2
HAZARD_PTR_SIZE == 3     \* hazard slots of one record
Null == 0                \* nullptr

Threads == 1..num_thread
Slots == 0..(HAZARD_PTR_SIZE - 1)
Addr == {2 * i : i \in 1..NumAddrs}          \* aligned node addresses
Sentinel == 2 * (NumAddrs + 1)               \* &head_ of the list-map
Cells == Addr \cup {Sentinel}
Ptrs == Addr \cup {Null}
Keys == 1..NumKeys

VARIABLES
  prog,                  \* which program runs: "queue", "pingpong", "map", "mapseq", ...
  local_record,          \* local_record[t]: the record of thread t, Null without one
  hazard_record_head_,   \* HazardRoot::hazard_record_head_
  record_next,           \* record_next[r]: HazardRecord::next
  raises,                \* the objects whose deleter raises when called
  destroyed,             \* the static objects whose destructor has run at exit
  pool_,                 \* QueueNodePoolAllocator::pool_, the top of the free stack
  live,                  \* addresses currently allocated
  used,                  \* addresses handed out at least once
  next, val, key,        \* node fields, by address
  head_, tail_,          \* QueueBase::head_, QueueBase::tail_
  hp,                    \* hp[r][i]: hazard slot i of record r
  retired,               \* retired[r]: HazardRecord::retired
  active,                \* active[r]: HazardRecord::active
  hazard_bucket_head_,   \* the registry, head first
  global_retired_,       \* HazardRoot::global_retired_
  global_retired_mutex_, \* owner of the mutex, 0 when free
  pc, lv,                \* per thread: position and locals
  absQ,                  \* history: the queue as linearised
  enqd, deqd,            \* history: bags of values linked / received
  deqOrder,              \* history: values in the order of the head_ CASes
  printed,               \* history: the driver printed "???"
  absMap,                \* history: the map as linearised
  seen,                  \* history: per pending map operation, the states of its key
  refMap                 \* history: the reference map of the sequential run

vars == << prog, local_record, hazard_record_head_, record_next, raises, destroyed, pool_, live, used, next, val, key, head_, tail_, hp, retired, active,
           hazard_bucket_head_, global_retired_, global_retired_mutex_, pc, lv,
           absQ, enqd, deqd, deqOrder, printed, absMap, seen, refMap >>

registryVars == << local_record, hazard_record_head_, record_next >>
progVars == << prog, raises, registryVars >>
mainVars == << progVars, destroyed, pool_ >>
heapVars == << live, used, next, val, key >>
queueRoots == << head_, tail_ >>
sinkVars == << active, hazard_bucket_head_, global_retired_, global_retired_mutex_ >>
queueHist == << absQ, enqd, deqd, deqOrder, printed >>
mapHist == << absMap, seen, refMap >>

\* ------------------------------------------------------------ markable_ptr
\* The mark is the low bit of the word (src/markable_ptr.h).
is_marked(mp) == mp % 2 # 0
to_marked(mp) == IF mp % 2 = 0 THEN mp + 1 ELSE mp
to_unmarked(mp) == mp - (mp % 2)

\* ---------------------------------------------------------------- the heap
\* operator new: a freed address may be handed out again; among the addresses
\* never handed out only the lowest is tried (they are interchangeable).
Fresh == Addr \ used
FreeChoices ==
  ((Addr \ live) \cap used) \cup
  (IF Fresh = {} THEN {} ELSE {CHOOSE a \in Fresh : \A b \in Fresh : a <= b})

\* Reading a field of freed memory is undefined: any word may come back.
ReadNext(a) == IF a \in live \cup {Sentinel} THEN {next[a]} ELSE Ptrs
ReadVal(a) == IF a \in live THEN {val[a]} ELSE {0, val[a]}
ReadKey(a) == IF a \in live THEN {key[a]} ELSE Keys

\* atomic_compare_and_set on the next field of cell a: whether it succeeds.
\* On freed memory either outcome may be seen.
CasNext(a, expected) ==
  IF a \in live \cup {Sentinel} THEN {next[a] = expected} ELSE BOOLEAN

\* A store to a field (f: the field, by address) of cell a; a store to freed
\* memory is lost.
SetNext(f, a, w) == IF a \in live \cup {Sentinel} THEN [f EXCEPT ![a] = w] ELSE f

\* operator delete on a set of addresses: the cells go back to the allocator.
Freed(f, S, z) == [a \in DOMAIN f |-> IF a \in S THEN z ELSE f[a]]

\* The nodes a destructor visits from a on, following next with the mark
\* stripped, at most n of them.
RECURSIVE WalkFrom(_, _)
WalkFrom(a, n) ==
  IF a = Null \/ n = 0 THEN << >>
  ELSE << a >> \o WalkFrom(to_unmarked(next[a]), n - 1)

\* -------------------------------------------------------------- hazard_ptr
\* A hazard_ptr object: hp_ is the index of its slot, ptr_ its private copy.
HazardPtr(i) == [hp_ |-> i, ptr_ |-> Null]

NoLocals ==
  [ node |-> Null, p1 |-> Null, nxt |-> Null, tl |-> Null,
    element |-> 0, result |-> 0, loops |-> 0, ops |-> 0, seqno |-> 0,
    tail_hp |-> HazardPtr(0), head_hp |-> HazardPtr(0), next_hp |-> HazardPtr(0),
    prev_hp |-> HazardPtr(0), curr_hp |-> HazardPtr(0), skip_hp |-> HazardPtr(0),
    prev_next |-> Null, curr_next |-> Null, k |-> 0, v |-> 0, out |-> 0,
    res |-> FALSE, exp_res |-> FALSE, exp_out |-> 0,
    op |-> "none", phase |-> "enq", delivered |-> << >>,
    pool_hp |-> HazardPtr(0), obj |-> Null, p |-> Null,
    record |-> Null, head |-> Null, bucket |-> Null, hazard_ptr |-> HazardPtr(0),
    linked |-> {}, visited |-> {}, cas |-> {}, inst |-> [linked |-> FALSE, unmarked |-> FALSE],
    solo |-> FALSE,
    src |-> "none", hf |-> "none", lf_ret |-> "idle",
    prot |-> {}, scaned |-> {}, scan_i |-> 0, after |-> "idle", ret |-> "idle" ]

\* What a thread keeps from one operation to the next: the driver's locals.
\* Everything else is a local of the operation and dies with it.
\* In the map programs the caller also keeps what the operation returned.
OpEnd(l) ==
  IF prog \in {"queue", "pingpong"}
  THEN [ NoLocals EXCEPT !.element = l.element, !.loops = l.loops, !.ops = l.ops,
                         !.seqno = l.seqno, !.phase = l.phase ]
  ELSE [ NoLocals EXCEPT !.ops = l.ops, !.op = l.op, !.k = l.k, !.v = l.v,
                         !.res = l.res, !.out = l.out,
                         !.exp_res = l.exp_res, !.exp_out = l.exp_out,
                         !.delivered = l.delivered ]

\* Per pending map operation: the values (0: absent) its key has had since the
\* invocation, or, once its own CAS took effect, the value it replaced; for a
\* forEach, gone: the keys that were absent at an instant since the invocation.
NoSeen == [fixed |-> FALSE, vals |-> {}, gone |-> {}]

AllNull == [i \in Slots |-> Null]
NonNull(h) == {h[i] : i \in Slots} \ {Null}

\* ~hazard_array(): the slots of the array are stored null on return.
Return(t, l) ==
  /\ hp' = [hp EXCEPT ![t] = AllNull]
  /\ lv' = [lv EXCEPT ![t] = OpEnd(l)]
  /\ pc' = [pc EXCEPT ![t] = "idle"]

\* ------------------------------------------------------------ scan, flush
RECURSIVE SlotsOf(_)
SlotsOf(rs) ==
  IF rs = << >> THEN << >>
  ELSE [i \in 1..HAZARD_PTR_SIZE |-> << Head(rs), i - 1 >>] \o SlotsOf(Tail(rs))

\* The slots scanHp reads of the records of other threads, in registry order.
ScanList(t) == SlotsOf(SelectSeq(hazard_bucket_head_, LAMBDA r : r # t))

\* HazardRoot::scanHp begins: the fence, and the reads of the caller's own
\* slots (h), which no other thread writes.
ScanBegin(t, l, h, afterpc, retpc) ==
  /\ lv' = [lv EXCEPT ![t] = [l EXCEPT !.scaned = NonNull(h), !.scan_i = 1,
                                        !.after = afterpc, !.ret = retpc]]
  /\ pc' = [pc EXCEPT ![t] = IF ScanList(t) = << >> THEN afterpc ELSE "scanHp"]

\* HazardRoot::scanHp, one relaxed load of a slot of another record.
scanHp(t) ==
  /\ pc[t] = "scanHp"
  /\ LET s == ScanList(t)[lv[t].scan_i]
         p == hp[s[1]][s[2]]
         last == lv[t].scan_i = Len(ScanList(t))
     IN /\ lv' = [lv EXCEPT ![t].scaned = IF p # Null THEN @ \cup {p} ELSE @,
                            ![t].scan_i = @ + 1]
        /\ pc' = [pc EXCEPT ![t] = IF last THEN lv[t].after ELSE "scanHp"]
  /\ UNCHANGED << mainVars, heapVars, queueRoots, hp, retired, sinkVars, queueHist, mapHist >>

\* A deleteItems that compacts the survivors from the back of the queue.
Kept_reversed(scaned, items) ==
  LET k == SelectSeq(items, LAMBDA a : a \in scaned)
  IN [i \in 1..Len(k) |-> k[Len(k) + 1 - i]]

\* HazardRoot::deleteItems: the items the scan did not see are deleted and
\* leave the queue, the others stay in their order.
Kept(scaned, items) == SelectSeq(items, LAMBDA a : a \in scaned)
Deleted(scaned, items) == {items[i] : i \in 1..Len(items)} \ scaned

DeleteCells(S) ==
  /\ live' = live \ S
  /\ next' = Freed(next, S, Null)
  /\ val' = Freed(val, S, 0)
  /\ key' = Freed(key, S, 0)
  /\ used' = used

\* HazardRoot::flushRetired after its scan: deleteItems on the caller's queue,
\* then the operation that retired goes on.
flushRetired(t) ==
  /\ pc[t] = "flush_delete"
  /\ DeleteCells(Deleted(lv[t].scaned, retired[t]))
  /\ retired' = [retired EXCEPT ![t] = Kept(lv[t].scaned, @)]
  /\ LET l == [lv[t] EXCEPT !.scaned = {}, !.scan_i = 0, !.after = "idle", !.ret = "idle"]
     IN IF lv[t].ret = "idle"
        THEN Return(t, l)
        ELSE /\ lv' = [lv EXCEPT ![t] = l]
             /\ pc' = [pc EXCEPT ![t] = lv[t].ret]
             /\ hp' = hp
  /\ UNCHANGED << mainVars, queueRoots, sinkVars, queueHist, mapHist >>

\* hazard_ptr::retire then HazardRecord::addRetired, on the hazard_ptr in field
\* hf of the locals l (h: the caller's slots): the slot is cleared, the object
\* appended, and at the threshold the flush starts.
Retire(t, l, h, hf, retpc) ==
  LET obj == l[hf].ptr_
      h2 == [h EXCEPT ![l[hf].hp_] = Null]
      l2 == [l EXCEPT ![hf].ptr_ = Null, !.prot = @ \ {l[hf].hp_}]
      q == IF obj = Null THEN retired[t] ELSE Append(retired[t], obj)
  IN /\ retired' = [retired EXCEPT ![t] = q]
     /\ IF obj # Null /\ Len(q) >= HAZARD_FLUSH_SIZE
        THEN /\ hp' = [hp EXCEPT ![t] = h2]
             /\ ScanBegin(t, l2, h2, "flush_delete", retpc)
        ELSE IF retpc = "idle"
             THEN Return(t, l2)
             ELSE /\ hp' = [hp EXCEPT ![t] = h2]
                  /\ lv' = [lv EXCEPT ![t] = l2]
                  /\ pc' = [pc EXCEPT ![t] = retpc]

ExitLocals(l) == [NoLocals EXCEPT !.element = l.element, !.loops = l.loops, !.ops = l.ops]

\* The number of operations thread t invokes before it leaves: the first
\* thread of a concurrent program invokes one more than the others.
Budget(t) ==
  CASE prog = "queue" -> IF t = 1 THEN MaxOps ELSE MaxOps - 1
    [] prog = "pingpong" -> 2 * NumLoops
    [] prog = "map" -> IF t = 1 THEN MaxMapOps ELSE MaxMapOps - 1
    [] prog = "mapseq" -> MaxSeqOps

\* HazardRecord::clearLocalRecord and the start of HazardRoot::deallocateRecord:
\* the thread leaves its hazard context, takes the mutex and starts the scan.
clearLocalRecord(t) ==
  /\ pc[t] = "idle"
  /\ prog # "maploop"
  /\ prog = "pingpong" => lv[t].loops = NumLoops
  /\ prog # "pingpong" => lv[t].ops = Budget(t)
  /\ global_retired_mutex_ = 0
  /\ global_retired_mutex_' = t
  /\ ScanBegin(t, ExitLocals(lv[t]), hp[t], "dealloc_delete", "done")
  /\ seen' = [seen EXCEPT ![t] = NoSeen]
  /\ UNCHANGED << mainVars, heapVars, queueRoots, hp, retired, active, hazard_bucket_head_,
                  global_retired_, queueHist, absMap, refMap >>

\* A deallocateRecord that clears the record's queue without moving what the
\* scan kept to global_retired_.
deallocateRecord_drop(t) ==
  /\ pc[t] = "dealloc_delete"
  /\ LET sc == lv[t].scaned
     IN /\ DeleteCells(Deleted(sc, retired[t]) \cup Deleted(sc, global_retired_))
        /\ global_retired_' = Kept(sc, global_retired_)
  /\ retired' = [retired EXCEPT ![t] = << >>]
  /\ global_retired_mutex_' = 0
  /\ active' = [active EXCEPT ![t] = 0]
  /\ lv' = [lv EXCEPT ![t] = ExitLocals(@)]
  /\ pc' = [pc EXCEPT ![t] = "done"]
  /\ UNCHANGED << mainVars, queueRoots, hp, hazard_bucket_head_, queueHist, mapHist >>

\* HazardRoot::deallocateRecord after its scan: deleteItems on the record's
\* queue and on the sink, the survivors move to the sink, the mutex is
\* released, the queue cleared and the record marked inactive.
deallocateRecord(t) ==
  /\ pc[t] = "dealloc_delete"
  /\ LET sc == lv[t].scaned
     IN /\ DeleteCells(Deleted(sc, retired[t]) \cup Deleted(sc, global_retired_))
        /\ global_retired_' = Kept(sc, global_retired_) \o Kept(sc, retired[t])
  /\ retired' = [retired EXCEPT ![t] = << >>]
  /\ global_retired_mutex_' = 0
  /\ active' = [active EXCEPT ![t] = 0]
  /\ lv' = [lv EXCEPT ![t] = ExitLocals(@)]
  /\ pc' = [pc EXCEPT ![t] = "done"]
  /\ UNCHANGED << mainVars, queueRoots, hp, hazard_bucket_head_, queueHist, mapHist >>

\* ------------------------------------------------------ hazard_ptr::load_from
\* The atomic pointer load_from reads, by the name kept in the locals.
SrcVal(s) == IF s = "tail_" THEN tail_ ELSE IF s = "pool_" THEN pool_ ELSE head_

LoadFrom(l, hpf, source, retpc) ==
  [l EXCEPT !.hf = hpf, !.src = source, !.lf_ret = retpc]

\* T* p1 = atomic_load_relaxed(obj)
load_from_read(t) ==
  /\ pc[t] = "lf_read"
  /\ lv' = [lv EXCEPT ![t].p1 = SrcVal(lv[t].src)]
  /\ pc' = [pc EXCEPT ![t] = "lf_publish"]
  /\ UNCHANGED << mainVars, heapVars, queueRoots, hp, retired, sinkVars, queueHist, mapHist >>

\* A load_from that goes to its second read without storing p1 to the slot.
load_from_publish_skip(t) ==
  /\ pc[t] = "lf_publish"
  /\ hp' = hp
  /\ lv' = [lv EXCEPT ![t].prot = @ \ {lv[t][lv[t].hf].hp_}]
  /\ pc' = [pc EXCEPT ![t] = "lf_verify"]
  /\ UNCHANGED << mainVars, heapVars, queueRoots, retired, sinkVars, queueHist, mapHist >>

\* atomic_store_release(hp_, p1); atomic_fence_seq_cst()
load_from_publish(t) ==
  /\ pc[t] = "lf_publish"
  /\ LET slot == lv[t][lv[t].hf].hp_
     IN /\ hp' = [hp EXCEPT ![t][slot] = lv[t].p1]
        /\ lv' = [lv EXCEPT ![t].prot = @ \ {slot}]
  /\ pc' = [pc EXCEPT ![t] = "lf_verify"]
  /\ UNCHANGED << mainVars, heapVars, queueRoots, retired, sinkVars, queueHist, mapHist >>

\* load_from without the validating second load: the published pointer is
\* taken as protected at once.
load_from_unverified(t) ==
  /\ pc[t] = "lf_verify"
  /\ LET hpf == lv[t].hf
         slot == lv[t][hpf].hp_
         p2 == lv[t].p1
     IN /\ lv' = [lv EXCEPT ![t][hpf].ptr_ = p2,
                            ![t].prot = IF p2 # Null THEN @ \cup {slot} ELSE @,
                            ![t].p1 = Null, ![t].src = "none",
                            ![t].hf = "none", ![t].lf_ret = "idle"]
        /\ pc' = [pc EXCEPT ![t] = lv[t].lf_ret]
  /\ UNCHANGED << mainVars, heapVars, queueRoots, hp, retired, sinkVars, queueHist, mapHist >>

\* T* p2 = atomic_load_acquire(obj); if (p1 == p2) { ptr_ = p2; return } p1 = p2
load_from_verify(t) ==
  /\ pc[t] = "lf_verify"
  /\ LET p2 == SrcVal(lv[t].src)
         hpf == lv[t].hf
         slot == lv[t][hpf].hp_
     IN IF lv[t].p1 = p2
        THEN /\ lv' = [lv EXCEPT ![t][hpf].ptr_ = p2,
                                 ![t].prot = IF p2 # Null THEN @ \cup {slot} ELSE @,
                                 ![t].p1 = Null, ![t].src = "none",
                                 ![t].hf = "none", ![t].lf_ret = "idle"]
             /\ pc' = [pc EXCEPT ![t] = lv[t].lf_ret]
        ELSE /\ lv' = [lv EXCEPT ![t].p1 = p2]
             /\ pc' = [pc EXCEPT ![t] = "lf_publish"]
  /\ UNCHANGED << mainVars, heapVars, queueRoots, hp, retired, sinkVars, queueHist, mapHist >>

\* ------------------------------------------------------------------- Queue
\* The value the next enqueue of t puts in: the driver's counter, or in the
\* free program a value that names its producer and its rank.
EnqValue(t) ==
  IF prog = "pingpong" THEN lv[t].element + 1 ELSE 10 * t + lv[t].seqno + 1
Producer(x) == x \div 10

\* Queue::enqueue up to the loop of QueueBase::enqueue: newNodeAndValue
\* allocates and fills the node, hazard_array<1> gives tail_hp slot 0.
enqueue(t) ==
  /\ pc[t] = "idle"
  /\ \/ prog = "queue" /\ lv[t].ops < Budget(t)
     \/ prog = "pingpong" /\ lv[t].phase = "enq" /\ lv[t].loops < NumLoops
  /\ \E a \in FreeChoices :
       /\ live' = live \cup {a}
       /\ used' = used \cup {a}
       /\ next' = [next EXCEPT ![a] = Null]
       /\ val' = [val EXCEPT ![a] = EnqValue(t)]
       /\ lv' = [lv EXCEPT ![t] =
            LoadFrom([@ EXCEPT !.node = a, !.op = "enqueue",
                               !.ops = IF prog = "queue" THEN @ + 1 ELSE @,
                               !.seqno = IF prog = "queue" THEN @ + 1 ELSE @,
                               !.element = IF prog = "pingpong" THEN @ + 1 ELSE @,
                               !.tail_hp = HazardPtr(0)],
                     "tail_hp", "tail_", "enq_next")]
  /\ pc' = [pc EXCEPT ![t] = "lf_read"]
  /\ UNCHANGED << mainVars, key, queueRoots, hp, retired, sinkVars, queueHist, mapHist >>

\* NodeBase* next = atomic_load_acquire(&tail_hp->next)
enqueue_next(t) ==
  /\ pc[t] = "enq_next"
  /\ \E n \in ReadNext(lv[t].tail_hp.ptr_) :
       /\ lv' = [lv EXCEPT ![t].nxt = n]
       /\ pc' = [pc EXCEPT ![t] = IF n # Null THEN "enq_help" ELSE "enq_link"]
  /\ UNCHANGED << mainVars, heapVars, queueRoots, hp, retired, sinkVars, queueHist, mapHist >>

\* An enqueue that, finding tail_hp->next non-null, goes round again without
\* the CAS on tail_.
enqueue_help_nocas(t) ==
  /\ pc[t] = "enq_help"
  /\ tail_' = tail_
  /\ lv' = [lv EXCEPT ![t] = LoadFrom([@ EXCEPT !.nxt = Null],
                                      "tail_hp", "tail_", "enq_next")]
  /\ pc' = [pc EXCEPT ![t] = "lf_read"]
  /\ UNCHANGED << mainVars, heapVars, head_, hp, retired, sinkVars, queueHist, mapHist >>

\* if (next) { atomic_compare_and_set(&tail_, tail_hp.get(), next); continue; }
enqueue_help(t) ==
  /\ pc[t] = "enq_help"
  /\ tail_' = IF tail_ = lv[t].tail_hp.ptr_ THEN lv[t].nxt ELSE tail_
  /\ lv' = [lv EXCEPT ![t] = LoadFrom([@ EXCEPT !.nxt = Null],
                                      "tail_hp", "tail_", "enq_next")]
  /\ pc' = [pc EXCEPT ![t] = "lf_read"]
  /\ UNCHANGED << mainVars, heapVars, head_, hp, retired, sinkVars, queueHist, mapHist >>

\* enqueue that returns after one attempt: a lost CAS on tail_hp->next is not
\* retried.
enqueue_link_once(t) ==
  /\ pc[t] = "enq_link"
  /\ LET tl == lv[t].tail_hp.ptr_
     IN \E ok \in CasNext(tl, Null) :
          IF ok
          THEN /\ next' = SetNext(next, tl, lv[t].node)
               /\ absQ' = Append(absQ, val[lv[t].node])
               /\ enqd' = enqd (+) SetToBag({val[lv[t].node]})
               /\ pc' = [pc EXCEPT ![t] = "enq_swing"]
               /\ UNCHANGED << lv, hp >>
          ELSE /\ Return(t, [lv[t] EXCEPT !.phase = "deq"])
               /\ UNCHANGED << next, absQ, enqd >>
  /\ UNCHANGED << mainVars, live, used, val, key, queueRoots, retired, sinkVars,
                  deqd, deqOrder, printed, mapHist >>

\* enqueue with a plain store in the place of the CAS on tail_hp->next.
enqueue_link_store(t) ==
  /\ pc[t] = "enq_link"
  /\ LET tl == lv[t].tail_hp.ptr_
     IN /\ next' = SetNext(next, tl, lv[t].node)
        /\ absQ' = Append(absQ, val[lv[t].node])
        /\ enqd' = enqd (+) SetToBag({val[lv[t].node]})
        /\ pc' = [pc EXCEPT ![t] = "enq_swing"]
        /\ lv' = lv
  /\ UNCHANGED << mainVars, live, used, val, key, queueRoots, hp, retired, sinkVars,
                  deqd, deqOrder, printed, mapHist >>

\* if (atomic_compare_and_set(&tail_hp->next, next, node)): the node is linked
enqueue_link(t) ==
  /\ pc[t] = "enq_link"
  /\ LET tl == lv[t].tail_hp.ptr_
     IN \E ok \in CasNext(tl, Null) :
          IF ok
          THEN /\ next' = SetNext(next, tl, lv[t].node)
               /\ absQ' = Append(absQ, val[lv[t].node])
               /\ enqd' = enqd (+) SetToBag({val[lv[t].node]})
               /\ pc' = [pc EXCEPT ![t] = "enq_swing"]
               /\ lv' = lv
          ELSE /\ pc' = [pc EXCEPT ![t] = "lf_read"]
               /\ lv' = [lv EXCEPT ![t] = LoadFrom(@, "tail_hp", "tail_", "enq_next")]
               /\ UNCHANGED << next, absQ, enqd >>
  /\ UNCHANGED << mainVars, live, used, val, key, queueRoots, hp, retired, sinkVars,
                  deqd, deqOrder, printed, mapHist >>

\* An enqueue that swings tail_ to its node with a plain store.
enqueue_swing_store(t) ==
  /\ pc[t] = "enq_swing"
  /\ tail_' = lv[t].node
  /\ Return(t, [lv[t] EXCEPT !.phase = "deq"])
  /\ UNCHANGED << mainVars, heapVars, head_, retired, sinkVars, queueHist, mapHist >>

\* atomic_compare_and_set(&tail_, tail_hp.get(), node); return
enqueue_swing(t) ==
  /\ pc[t] = "enq_swing"
  /\ tail_' = IF tail_ = lv[t].tail_hp.ptr_ THEN lv[t].node ELSE tail_
  /\ Return(t, [lv[t] EXCEPT !.phase = "deq"])
  /\ UNCHANGED << mainVars, heapVars, head_, retired, sinkVars, queueHist, mapHist >>

\* Queue::dequeue(Function) up to the loop of QueueBase::dequeue:
\* hazard_array<2> gives head_hp slot 0 and next_hp slot 1.
dequeue(t) ==
  /\ pc[t] = "idle"
  /\ \/ prog = "queue" /\ lv[t].ops < Budget(t)
     \/ prog = "pingpong" /\ lv[t].phase = "deq"
  /\ lv' = [lv EXCEPT ![t] =
       LoadFrom([@ EXCEPT !.op = "dequeue",
                          !.ops = IF prog = "queue" THEN @ + 1 ELSE @,
                          !.head_hp = HazardPtr(0), !.next_hp = HazardPtr(1)],
                "head_hp", "head_", "deq_next")]
  /\ pc' = [pc EXCEPT ![t] = "lf_read"]
  /\ UNCHANGED << mainVars, heapVars, queueRoots, hp, retired, sinkVars, queueHist, mapHist >>

\* A dequeue whose return of false leaves the slots of its hazard_array as
\* they are.
dequeue_next_keep(t) ==
  /\ pc[t] = "deq_next"
  /\ \E n \in ReadNext(lv[t].head_hp.ptr_) :
       IF n = Null
       THEN /\ lv' = [lv EXCEPT ![t] = OpEnd([lv[t] EXCEPT !.result = 0])]
            /\ pc' = [pc EXCEPT ![t] = "idle"]
            /\ hp' = hp
            /\ printed' = (printed \/ prog = "pingpong")
       ELSE /\ lv' = [lv EXCEPT ![t].nxt = n]
            /\ pc' = [pc EXCEPT ![t] = "deq_tail"]
            /\ UNCHANGED << hp, printed >>
  /\ UNCHANGED << mainVars, heapVars, queueRoots, retired, sinkVars,
                  absQ, enqd, deqd, deqOrder, mapHist >>

\* NodeBase* next = atomic_load_acquire(&head_hp->next); if (!next) return false
\* (in the driver: print "???" and call dequeue again)
dequeue_next(t) ==
  /\ pc[t] = "deq_next"
  /\ \E n \in ReadNext(lv[t].head_hp.ptr_) :
       IF n = Null
       THEN /\ Return(t, [lv[t] EXCEPT !.result = 0])
            /\ printed' = (printed \/ prog = "pingpong")
       ELSE /\ lv' = [lv EXCEPT ![t].nxt = n]
            /\ pc' = [pc EXCEPT ![t] = "deq_tail"]
            /\ UNCHANGED << hp, printed >>
  /\ UNCHANGED << mainVars, heapVars, queueRoots, retired, sinkVars,
                  absQ, enqd, deqd, deqOrder, mapHist >>

\* A dequeue that does not compare head_hp with tail_ and never advances tail_.
dequeue_tail_nohelp(t) ==
  /\ pc[t] = "deq_tail"
  /\ lv' = [lv EXCEPT ![t].tl = tail_]
  /\ pc' = [pc EXCEPT ![t] = "deq_publish"]
  /\ UNCHANGED << mainVars, heapVars, queueRoots, hp, retired, sinkVars, queueHist, mapHist >>

\* NodeBase* tail = atomic_load_relaxed(&tail_); if (head_hp.get() == tail) ...
dequeue_tail(t) ==
  /\ pc[t] = "deq_tail"
  /\ lv' = [lv EXCEPT ![t].tl = tail_]
  /\ pc' = [pc EXCEPT ![t] = IF lv[t].head_hp.ptr_ = tail_ THEN "deq_help" ELSE "deq_publish"]
  /\ UNCHANGED << mainVars, heapVars, queueRoots, hp, retired, sinkVars, queueHist, mapHist >>

\* atomic_compare_and_set(&tail_, tail, next)
dequeue_help(t) ==
  /\ pc[t] = "deq_help"
  /\ tail_' = IF tail_ = lv[t].tl THEN lv[t].nxt ELSE tail_
  /\ lv' = [lv EXCEPT ![t].cas = IF tail_ = lv[t].tl THEN @ \cup {"tail_"} ELSE @]
  /\ pc' = [pc EXCEPT ![t] = "deq_publish"]
  /\ UNCHANGED << mainVars, heapVars, head_, hp, retired, sinkVars, queueHist, mapHist >>

\* A dequeue that sets next_hp's pointer without storing it in the slot.
reset_without_fence_unpublished(t) ==
  /\ pc[t] = "deq_publish"
  /\ hp' = hp
  /\ lv' = [lv EXCEPT ![t].next_hp.ptr_ = lv[t].nxt,
                      ![t].prot = @ \ {lv[t].next_hp.hp_}]
  /\ pc' = [pc EXCEPT ![t] = "deq_cas"]
  /\ UNCHANGED << mainVars, heapVars, queueRoots, retired, sinkVars, queueHist, mapHist >>

\* next_hp.reset_without_fence(next)
reset_without_fence(t) ==
  /\ pc[t] = "deq_publish"
  /\ hp' = [hp EXCEPT ![t][lv[t].next_hp.hp_] = lv[t].nxt]
  /\ lv' = [lv EXCEPT ![t].next_hp.ptr_ = lv[t].nxt,
                      ![t].prot = @ \ {lv[t].next_hp.hp_}]
  /\ pc' = [pc EXCEPT ![t] = "deq_cas"]
  /\ UNCHANGED << mainVars, heapVars, queueRoots, retired, sinkVars, queueHist, mapHist >>

\* dequeue with a plain store in the place of the CAS on head_.
dequeue_store(t) ==
  /\ pc[t] = "deq_cas"
  /\ head_' = lv[t].nxt
  /\ absQ' = IF absQ = << >> THEN absQ ELSE Tail(absQ)
  /\ deqOrder' = Append(deqOrder, val[lv[t].nxt])
  /\ lv' = [lv EXCEPT ![t].prot = @ \cup {lv[t].next_hp.hp_},
                      ![t].result = IF absQ = << >> THEN 0 ELSE Head(absQ),
                      ![t].tl = Null]
  /\ pc' = [pc EXCEPT ![t] = "deq_receive"]
  /\ UNCHANGED << mainVars, heapVars, tail_, hp, retired, sinkVars, enqd, deqd, printed, mapHist >>

\* if (atomic_compare_and_set(&head_, head_hp.get(), next)) return true
dequeue_cas(t) ==
  /\ pc[t] = "deq_cas"
  /\ IF head_ = lv[t].head_hp.ptr_
     THEN /\ head_' = lv[t].nxt
          /\ absQ' = IF absQ = << >> THEN absQ ELSE Tail(absQ)
          /\ deqOrder' = Append(deqOrder, val[lv[t].nxt])
          /\ lv' = [lv EXCEPT ![t].prot = @ \cup {lv[t].next_hp.hp_},
                              ![t].result = IF absQ = << >> THEN 0 ELSE Head(absQ),
                              ![t].tl = Null, ![t].cas = @ \cup {"head_"}]
          /\ pc' = [pc EXCEPT ![t] = "deq_receive"]
     ELSE /\ lv' = [lv EXCEPT ![t] =
               LoadFrom([@ EXCEPT !.nxt = Null, !.tl = Null],
                        "head_hp", "head_", "deq_next")]
          /\ pc' = [pc EXCEPT ![t] = "lf_read"]
          /\ UNCHANGED << head_, absQ, deqOrder >>
  /\ UNCHANGED << mainVars, heapVars, tail_, hp, retired, sinkVars, enqd, deqd, printed, mapHist >>

\* The receiver reads the value of the node in head_hp, the old dummy.
dequeue_receive_head(t) ==
  /\ pc[t] = "deq_receive"
  /\ \E x \in ReadVal(lv[t].head_hp.ptr_) :
       /\ deqd' = deqd (+) SetToBag({x})
       /\ val' = SetNext(val, lv[t].next_hp.ptr_, 0)
       /\ LET h == [hp[t] EXCEPT ![lv[t].next_hp.hp_] = Null]
              l == [lv[t] EXCEPT !.next_hp.ptr_ = Null,
                                 !.prot = @ \ {lv[t].next_hp.hp_},
                                 !.element = IF prog = "pingpong" THEN x ELSE @,
                                 !.loops = IF prog = "pingpong" THEN @ + 1 ELSE @,
                                 !.phase = "enq"]
          IN Retire(t, l, h, "head_hp", "idle")
  /\ UNCHANGED << mainVars, live, used, next, key, queueRoots, sinkVars, absQ, enqd, deqOrder,
                  printed, mapHist >>

\* Queue::dequeue after QueueBase::dequeue returned true: the receiver reads
\* the value of the node in next_hp, clearValue destroys it (the node is the
\* dummy from now on), next_hp.reset(), head_hp.retire(&alloc).
dequeue_receive(t) ==
  /\ pc[t] = "deq_receive"
  /\ \E x \in ReadVal(lv[t].next_hp.ptr_) :
       /\ deqd' = deqd (+) SetToBag({x})
       /\ val' = SetNext(val, lv[t].next_hp.ptr_, 0)
       /\ LET h == [hp[t] EXCEPT ![lv[t].next_hp.hp_] = Null]
              l == [lv[t] EXCEPT !.next_hp.ptr_ = Null,
                                 !.prot = @ \ {lv[t].next_hp.hp_},
                                 !.element = IF prog = "pingpong" THEN x ELSE @,
                                 !.loops = IF prog = "pingpong" THEN @ + 1 ELSE @,
                                 !.phase = "enq"]
          IN Retire(t, l, h, "head_hp", "idle")
  /\ UNCHANGED << mainVars, live, used, next, key, queueRoots, sinkVars, absQ, enqd, deqOrder,
                  printed, mapHist >>

\* ----------------------------------------------------------- SortedListMap
\* hazard_ptr::swap: the two objects exchange slot and pointer.
SwapHp(l, f, g) == [l EXCEPT ![f] = l[g], ![g] = l[f]]

\* hazard_ptr::reset_dummy_pointer(&head_) on the hazard_ptr in field f.
ResetDummy(l, f) == [l EXCEPT ![f].ptr_ = Sentinel, !.prot = @ \ {l[f].hp_}]

\* hazard_ptr::reset() on the hazard_ptr in field f.
ResetNull(l, f) == [l EXCEPT ![f].ptr_ = Null, !.prot = @ \ {l[f].hp_}]

\* The value put by the next put of t: it names the thread and the call.
PutValue(t) == 10 * t + lv[t].ops + 1

\* The operation takes effect on key k: the map as linearised changes, the
\* caller's view is fixed to the value replaced, and the other pending
\* operations on k have seen one more state of k.
LinStep(t, k, w) ==
  /\ absMap' = [absMap EXCEPT ![k] = w]
  /\ seen' = [u \in Threads |->
       IF u = t THEN [NoSeen EXCEPT !.fixed = TRUE, !.vals = {absMap[k]}]
       ELSE IF pc[u] \notin {"idle", "done"} /\ lv[u].k = k /\ ~seen[u].fixed
            THEN [seen[u] EXCEPT !.vals = @ \cup {w}]
            ELSE IF pc[u] \notin {"idle", "done"} /\ lv[u].op = "forEach" /\ w = 0
                 THEN [seen[u] EXCEPT !.gone = @ \cup {k}]
                 ELSE seen[u]]

\* A thread of the program "maploop" invokes operations for as long as it
\* runs, and counts none of them.
MayStart(t) ==
  /\ pc[t] = "idle"
  /\ \/ prog \in {"map", "mapseq"} /\ lv[t].ops < Budget(t)
     \/ prog = "maploop"

\* The locals of get, put and remove before the search: hazard_array<2>,
\* prev_hp (slot 0) and curr_hp (slot 1), prev_hp.reset_dummy_pointer(&head_).
MapLocals(t, name, k, w, a) ==
  [ NoLocals EXCEPT !.ops = IF prog = "maploop" THEN 0 ELSE lv[t].ops + 1, !.op = name, !.k = k, !.v = w, !.node = a,
                    !.prev_hp = [hp_ |-> 0, ptr_ |-> Sentinel],
                    !.curr_hp = HazardPtr(1), !.skip_hp = HazardPtr(2),
                    !.exp_res = (prog = "mapseq" /\ k # 0 /\ refMap[k] # 0),
                    !.exp_out = IF prog = "mapseq" /\ k # 0 THEN refMap[k] ELSE 0 ]

\* SortedListMap::get up to searchEqual
get(t) ==
  /\ MayStart(t)
  /\ \E k \in Keys :
       /\ lv' = [lv EXCEPT ![t] = MapLocals(t, "get", k, 0, Null)]
       /\ seen' = [seen EXCEPT ![t] = [NoSeen EXCEPT !.vals = {absMap[k]}]]
  /\ pc' = [pc EXCEPT ![t] = "se_retry1"]
  /\ UNCHANGED << mainVars, heapVars, queueRoots, hp, retired, sinkVars, queueHist,
                  absMap, refMap >>

\* SortedListMap::put up to searchEqual: Node* node = new Node(key, value)
put(t) ==
  /\ MayStart(t)
  /\ \E k \in Keys, a \in FreeChoices :
       /\ live' = live \cup {a}
       /\ used' = used \cup {a}
       /\ key' = [key EXCEPT ![a] = k]
       /\ val' = [val EXCEPT ![a] = PutValue(t)]
       /\ next' = [next EXCEPT ![a] = Null]
       /\ lv' = [lv EXCEPT ![t] = MapLocals(t, "put", k, PutValue(t), a)]
       /\ seen' = [seen EXCEPT ![t] = [NoSeen EXCEPT !.vals = {absMap[k]}]]
       /\ refMap' = IF prog = "mapseq" THEN [refMap EXCEPT ![k] = PutValue(t)] ELSE refMap
  /\ pc' = [pc EXCEPT ![t] = "se_retry1"]
  /\ UNCHANGED << mainVars, queueRoots, hp, retired, sinkVars, queueHist, absMap >>

\* SortedListMap::remove up to searchEqual
remove(t) ==
  /\ MayStart(t)
  /\ \E k \in Keys :
       /\ lv' = [lv EXCEPT ![t] = MapLocals(t, "remove", k, 0, Null)]
       /\ seen' = [seen EXCEPT ![t] = [NoSeen EXCEPT !.vals = {absMap[k]}]]
       /\ refMap' = IF prog = "mapseq" THEN [refMap EXCEPT ![k] = 0] ELSE refMap
  /\ pc' = [pc EXCEPT ![t] = "se_retry1"]
  /\ UNCHANGED << mainVars, heapVars, queueRoots, hp, retired, sinkVars, queueHist, absMap >>

\* get, put or remove returns res (and out): ~hazard_array.
MapReturn(t, l, r, o) == Return(t, [l EXCEPT !.res = r, !.out = o])

\* searchEqual returns found to its caller: get copies the value out and
\* returns; put and remove go on to replaceCurrNode or to the insertion.
SE_Return(t, l, h, found) ==
  IF l.op = "get" \/ (l.op = "remove" /\ ~found)
  THEN \E x \in (IF found THEN ReadVal(l.curr_hp.ptr_) ELSE {0}) : MapReturn(t, l, found, x)
  ELSE /\ hp' = [hp EXCEPT ![t] = h]
       /\ lv' = [lv EXCEPT ![t] = l]
       /\ pc' = [pc EXCEPT ![t] = IF found THEN "rc_mark" ELSE "put_insert"]

\* retry3: at the end of the list curr_hp.reset() and return false, else go
\* on to publish the successor.
SE_Retry3(t, l, h) ==
  IF l.prev_next = Null
  THEN SE_Return(t, ResetNull(l, "curr_hp"), [h EXCEPT ![l.curr_hp.hp_] = Null], FALSE)
  ELSE /\ hp' = [hp EXCEPT ![t] = h]
       /\ lv' = [lv EXCEPT ![t] = l]
       /\ pc' = [pc EXCEPT ![t] = "se_publish"]

\* retry2: a marked prev_next sends the search back to the sentinel.
SE_Retry2(t, l, h) ==
  IF is_marked(l.prev_next)
  THEN /\ hp' = [hp EXCEPT ![t] = [h EXCEPT ![l.prev_hp.hp_] = Null]]
       /\ lv' = [lv EXCEPT ![t] = [ResetDummy(l, "prev_hp") EXCEPT !.prev_next = Null]]
       /\ pc' = [pc EXCEPT ![t] = "se_retry1"]
  ELSE SE_Retry3(t, l, h)

\* retry1: MarkablePtr prev_next = atomic_load_acquire(&prev_hp->next)
searchEqual_retry1(t) ==
  /\ pc[t] = "se_retry1"
  /\ \E pn \in ReadNext(lv[t].prev_hp.ptr_) :
       SE_Retry2(t, [lv[t] EXCEPT !.prev_next = pn], hp[t])
  /\ UNCHANGED << mainVars, heapVars, queueRoots, retired, sinkVars, queueHist, mapHist >>

\* curr_hp.reset(prev_next.pointer())
searchEqual_publish(t) ==
  /\ pc[t] = "se_publish"
  /\ hp' = [hp EXCEPT ![t][lv[t].curr_hp.hp_] = lv[t].prev_next]
  /\ lv' = [lv EXCEPT ![t].curr_hp.ptr_ = lv[t].prev_next,
                      ![t].prot = @ \ {lv[t].curr_hp.hp_}]
  /\ pc' = [pc EXCEPT ![t] = "se_verify"]
  /\ UNCHANGED << mainVars, heapVars, queueRoots, retired, sinkVars, queueHist, mapHist >>

\* What holds at the instant of the re-read (history): whether prev's next
\* points to curr and whether curr is unmarked.
Instant(l) ==
  [linked |-> next[l.prev_hp.ptr_] = l.curr_hp.ptr_,
   unmarked |-> ~is_marked(next[l.curr_hp.ptr_])]

\* A searchEqual that does not read prev's next again after publishing curr.
searchEqual_verify_skip(t) ==
  /\ pc[t] = "se_verify"
  /\ lv' = [lv EXCEPT ![t].prot = @ \cup {lv[t].curr_hp.hp_},
                      ![t].inst = Instant(lv[t])]
  /\ pc' = [pc EXCEPT ![t] = "se_curr"]
  /\ hp' = hp
  /\ UNCHANGED << mainVars, heapVars, queueRoots, retired, sinkVars, queueHist, mapHist >>

\* MarkablePtr tmp = atomic_load_acquire(&prev_hp->next); if (prev_next != tmp) ...
searchEqual_verify(t) ==
  /\ pc[t] = "se_verify"
  /\ \E tmp \in ReadNext(lv[t].prev_hp.ptr_) :
       IF lv[t].prev_next # tmp
       THEN SE_Retry2(t, [lv[t] EXCEPT !.prev_next = tmp], hp[t])
       ELSE /\ lv' = [lv EXCEPT ![t].prot = @ \cup {lv[t].curr_hp.hp_},
                                ![t].inst = Instant(lv[t])]
            /\ pc' = [pc EXCEPT ![t] = "se_curr"]
            /\ hp' = hp
  /\ UNCHANGED << mainVars, heapVars, queueRoots, retired, sinkVars, queueHist, mapHist >>

\* searchEqual that does not look at the mark of curr_next.
searchEqual_curr_nomark(t) ==
  /\ pc[t] = "se_curr"
  /\ \E cn \in ReadNext(lv[t].curr_hp.ptr_), ck \in ReadKey(lv[t].curr_hp.ptr_) :
       LET l == [lv[t] EXCEPT !.curr_next = cn, !.inst = NoLocals.inst]
       IN IF ck < l.k
          THEN SE_Retry3(t, [SwapHp(l, "prev_hp", "curr_hp") EXCEPT
                               !.prev_next = to_unmarked(cn)], hp[t])
          ELSE SE_Return(t, l, hp[t], ~(l.k < ck))
  /\ UNCHANGED << mainVars, heapVars, queueRoots, retired, sinkVars, queueHist, mapHist >>

\* curr_next = atomic_load_acquire(&curr_hp->next), then the comparison of keys
searchEqual_curr(t) ==
  /\ pc[t] = "se_curr"
  /\ \E cn \in ReadNext(lv[t].curr_hp.ptr_), ck \in ReadKey(lv[t].curr_hp.ptr_) :
       LET l == [lv[t] EXCEPT !.curr_next = cn, !.inst = NoLocals.inst]
       IN IF is_marked(cn)
          THEN /\ lv' = [lv EXCEPT ![t] = l]
               /\ pc' = [pc EXCEPT ![t] = "se_unlink"]
               /\ hp' = hp
          ELSE IF ck < l.k
               THEN SE_Retry3(t, [SwapHp(l, "prev_hp", "curr_hp") EXCEPT !.prev_next = cn], hp[t])
               ELSE SE_Return(t, l, hp[t], ~(l.k < ck))
  /\ UNCHANGED << mainVars, heapVars, queueRoots, retired, sinkVars, queueHist, mapHist >>

\* A searchEqual that unlinks the marked curr with a plain store to prev's
\* next field, whatever that field holds by then.
searchEqual_unlink_store(t) ==
  /\ pc[t] = "se_unlink"
  /\ next' = SetNext(next, lv[t].prev_hp.ptr_, to_unmarked(lv[t].curr_next))
  /\ Retire(t, [lv[t] EXCEPT !.prev_next = to_unmarked(lv[t].curr_next)],
            hp[t], "curr_hp", "se_retry3")
  /\ UNCHANGED << mainVars, live, used, val, key, queueRoots, sinkVars, queueHist, mapHist >>

\* if (atomic_compare_and_set(&prev_hp->next, prev_next, curr_next.to_unmarked()))
\*   { curr_hp.retire<Node>(); prev_next = curr_next.to_unmarked(); goto retry3; }
\* else goto retry1;
searchEqual_unlink(t) ==
  /\ pc[t] = "se_unlink"
  /\ \E ok \in CasNext(lv[t].prev_hp.ptr_, lv[t].prev_next) :
       IF ok
       THEN /\ next' = SetNext(next, lv[t].prev_hp.ptr_, to_unmarked(lv[t].curr_next))
            /\ Retire(t, [lv[t] EXCEPT !.prev_next = to_unmarked(lv[t].curr_next)],
                      hp[t], "curr_hp", "se_retry3")
       ELSE /\ pc' = [pc EXCEPT ![t] = "se_retry1"]
            /\ UNCHANGED << next, retired, hp, lv >>
  /\ UNCHANGED << mainVars, live, used, val, key, queueRoots, sinkVars, queueHist, mapHist >>

\* retry3 after the unlink (and the flush its retire may have run)
searchEqual_retry3(t) ==
  /\ pc[t] = "se_retry3"
  /\ SE_Retry3(t, lv[t], hp[t])
  /\ UNCHANGED << mainVars, heapVars, queueRoots, retired, sinkVars, queueHist, mapHist >>

\* remove that hands replaceCurrNode a null new_node.
NewNode_null(l) == IF l.op = "put" THEN l.node ELSE Null

\* The node replaceCurrNode puts in the place of curr: the new node of put,
\* the successor of curr for remove.
NewNode(l) == IF l.op = "put" THEN l.node ELSE l.curr_next

\* A replaceCurrNode that marks curr with a plain store, whatever curr's next
\* holds by then.
replaceCurrNode_mark_store(t) ==
  /\ pc[t] = "rc_mark"
  /\ LET l == lv[t]
         c == l.curr_hp.ptr_
         nx == IF l.op = "put" THEN [next EXCEPT ![l.node] = l.curr_next] ELSE next
     IN /\ next' = SetNext(nx, c, to_marked(NewNode(l)))
        /\ LinStep(t, l.k, l.v)
        /\ pc' = [pc EXCEPT ![t] = "rc_unlink"]
  /\ UNCHANGED << mainVars, live, used, val, key, queueRoots, hp, retired, sinkVars, lv,
                  queueHist, refMap >>

\* put: node->next = curr_next (remove: nothing), then replaceCurrNode:
\* atomic_compare_and_set(&curr_hp->next, curr_next, new_node.to_marked())
replaceCurrNode_mark(t) ==
  /\ pc[t] = "rc_mark"
  /\ LET l == lv[t]
         c == l.curr_hp.ptr_
         nx == IF l.op = "put" THEN [next EXCEPT ![l.node] = l.curr_next] ELSE next
     IN \E ok \in CasNext(c, l.curr_next) :
          IF ok
          THEN /\ next' = SetNext(nx, c, to_marked(NewNode(l)))
               /\ LinStep(t, l.k, l.v)
               /\ pc' = [pc EXCEPT ![t] = "rc_unlink"]
          ELSE /\ next' = nx
               /\ pc' = [pc EXCEPT ![t] = "rc_reread"]
               /\ UNCHANGED << absMap, seen >>
  /\ UNCHANGED << mainVars, live, used, val, key, queueRoots, hp, retired, sinkVars, lv,
                  queueHist, refMap >>

\* replaceCurrNode after the first CAS failed:
\* curr_next = atomic_load_acquire(&curr_hp->next); return false; then the
\* caller's while (!curr_next.is_marked())
replaceCurrNode_reread(t) ==
  /\ pc[t] = "rc_reread"
  /\ \E cn \in ReadNext(lv[t].curr_hp.ptr_) :
       /\ lv' = [lv EXCEPT ![t].curr_next = cn]
       /\ pc' = [pc EXCEPT ![t] = IF is_marked(cn) THEN "se_retry1" ELSE "rc_mark"]
  /\ UNCHANGED << mainVars, heapVars, queueRoots, hp, retired, sinkVars, queueHist, mapHist >>

\* replaceCurrNode that retires curr whether or not its second CAS succeeded.
replaceCurrNode_unlink_always(t) ==
  /\ pc[t] = "rc_unlink"
  /\ LET l == lv[t]
     IN \E ok \in CasNext(l.prev_hp.ptr_, l.curr_hp.ptr_), x \in ReadVal(l.curr_hp.ptr_) :
          LET l2 == [l EXCEPT !.res = TRUE, !.out = x]
          IN /\ next' = IF ok THEN SetNext(next, l.prev_hp.ptr_, NewNode(l)) ELSE next
             /\ Retire(t, l2, hp[t], "curr_hp", "idle")
  /\ UNCHANGED << mainVars, live, used, val, key, queueRoots, sinkVars, queueHist, mapHist >>

\* A replaceCurrNode that repeats its second CAS until it succeeds.
replaceCurrNode_unlink_spin(t) ==
  /\ pc[t] = "rc_unlink"
  /\ LET l == lv[t]
     IN \E ok \in CasNext(l.prev_hp.ptr_, l.curr_hp.ptr_), x \in ReadVal(l.curr_hp.ptr_) :
          LET l2 == [l EXCEPT !.res = TRUE, !.out = x]
          IN IF ok
             THEN /\ next' = SetNext(next, l.prev_hp.ptr_, NewNode(l))
                  /\ Retire(t, l2, hp[t], "curr_hp", "idle")
             ELSE UNCHANGED << next, retired, hp, lv, pc >>
  /\ UNCHANGED << mainVars, live, used, val, key, queueRoots, sinkVars, queueHist, mapHist >>

\* replaceCurrNode after the first CAS succeeded: the CAS of prev_hp->next from
\* curr to new_node, *out = value, curr_hp.retire<Node>() if the CAS succeeded,
\* return true.
replaceCurrNode_unlink(t) ==
  /\ pc[t] = "rc_unlink"
  /\ LET l == lv[t]
     IN \E ok \in CasNext(l.prev_hp.ptr_, l.curr_hp.ptr_), x \in ReadVal(l.curr_hp.ptr_) :
          LET l2 == [l EXCEPT !.res = TRUE, !.out = x]
          IN IF ok
             THEN /\ next' = SetNext(next, l.prev_hp.ptr_, NewNode(l))
                  /\ Retire(t, l2, hp[t], "curr_hp", "idle")
             ELSE /\ Return(t, l2)
                  /\ UNCHANGED << next, retired >>
  /\ UNCHANGED << mainVars, live, used, val, key, queueRoots, sinkVars, queueHist, mapHist >>

\* put that inserts with a plain store in the place of the CAS.
put_insert_store(t) ==
  /\ pc[t] = "put_insert"
  /\ LET l == lv[t]
         nx == [next EXCEPT ![l.node] = l.curr_hp.ptr_]
     IN /\ next' = SetNext(nx, l.prev_hp.ptr_, l.node)
        /\ LinStep(t, l.k, l.v)
        /\ MapReturn(t, l, FALSE, 0)
  /\ UNCHANGED << mainVars, live, used, val, key, queueRoots, retired, sinkVars,
                  queueHist, refMap >>

\* put when the key was not found: node->next = curr;
\* if (atomic_compare_and_set(&prev_hp->next, prev_next, MarkablePtr(node))) return false
put_insert(t) ==
  /\ pc[t] = "put_insert"
  /\ LET l == lv[t]
         nx == [next EXCEPT ![l.node] = l.curr_hp.ptr_]
     IN \E ok \in CasNext(l.prev_hp.ptr_, l.curr_hp.ptr_) :
          IF ok
          THEN /\ next' = SetNext(nx, l.prev_hp.ptr_, l.node)
               /\ LinStep(t, l.k, l.v)
               /\ MapReturn(t, l, FALSE, 0)
          ELSE /\ next' = nx
               /\ pc' = [pc EXCEPT ![t] = "se_retry1"]
               /\ UNCHANGED << hp, lv, absMap, seen >>
  /\ UNCHANGED << mainVars, live, used, val, key, queueRoots, retired, sinkVars,
                  queueHist, refMap >>

\* No other thread is in an operation on the map or will start one (history
\* of a forEach: whether it runs alone).
OthersFinished(t) ==
  \A u \in Threads \ {t} :
    \/ pc[u] = "done"
    \/ /\ lv[u].ops = Budget(u)
       /\ pc[u] = "idle" \/ lv[u].after = "dealloc_delete"

\* SortedListMap::forEach up to retry1: hazard_array<3>, prev_hp (slot 0),
\* curr_hp (slot 1), skip_hp (slot 2), prev_hp.reset_dummy_pointer(&head_).
forEach(t) ==
  /\ MayStart(t)
  /\ lv' = [lv EXCEPT ![t] = [MapLocals(t, "forEach", 0, 0, Null) EXCEPT
                                !.solo = OthersFinished(t)]]
  /\ seen' = [seen EXCEPT ![t] = [NoSeen EXCEPT !.gone = {k \in Keys : absMap[k] = 0}]]
  /\ pc' = [pc EXCEPT ![t] = "fe_retry1"]
  /\ UNCHANGED << mainVars, heapVars, queueRoots, hp, retired, sinkVars, queueHist,
                  absMap, refMap >>

\* retry3 of forEach: at the end of the list the traversal returns.
FE_Retry3(t, l, h) ==
  IF l.prev_next = Null
  THEN Return(t, l)
  ELSE /\ hp' = [hp EXCEPT ![t] = h]
       /\ lv' = [lv EXCEPT ![t] = l]
       /\ pc' = [pc EXCEPT ![t] = "fe_publish"]

\* retry2 of forEach that restarts without remembering where it was.
FE_Retry2_noskip(t, l, h) ==
  IF is_marked(l.prev_next)
  THEN /\ hp' = [hp EXCEPT ![t] = [h EXCEPT ![l.prev_hp.hp_] = Null]]
       /\ lv' = [lv EXCEPT ![t] = [ResetDummy(l, "prev_hp") EXCEPT !.prev_next = Null]]
       /\ pc' = [pc EXCEPT ![t] = "fe_retry1"]
  ELSE FE_Retry3(t, l, h)

\* retry2 of forEach: on a marked prev_next, if (!skip_hp) skip_hp.swap(prev_hp),
\* then retry0: prev_hp.reset_dummy_pointer(&head_).
FE_Retry2(t, l, h) ==
  IF is_marked(l.prev_next)
  THEN LET l1 == IF l.skip_hp.ptr_ = Null THEN SwapHp(l, "skip_hp", "prev_hp") ELSE l
       IN /\ hp' = [hp EXCEPT ![t] = [h EXCEPT ![l1.prev_hp.hp_] = Null]]
          /\ lv' = [lv EXCEPT ![t] = [ResetDummy(l1, "prev_hp") EXCEPT !.prev_next = Null]]
          /\ pc' = [pc EXCEPT ![t] = "fe_retry1"]
  ELSE FE_Retry3(t, l, h)

\* retry1: MarkablePtr prev_next = atomic_load_acquire(&prev_hp->next)
forEach_retry1(t) ==
  /\ pc[t] = "fe_retry1"
  /\ \E pn \in ReadNext(lv[t].prev_hp.ptr_) :
       FE_Retry2(t, [lv[t] EXCEPT !.prev_next = pn], hp[t])
  /\ UNCHANGED << mainVars, heapVars, queueRoots, retired, sinkVars, queueHist, mapHist >>

\* curr_hp.reset(prev_next.pointer())
forEach_publish(t) ==
  /\ pc[t] = "fe_publish"
  /\ hp' = [hp EXCEPT ![t][lv[t].curr_hp.hp_] = lv[t].prev_next]
  /\ lv' = [lv EXCEPT ![t].curr_hp.ptr_ = lv[t].prev_next,
                      ![t].prot = @ \ {lv[t].curr_hp.hp_}]
  /\ pc' = [pc EXCEPT ![t] = "fe_verify"]
  /\ UNCHANGED << mainVars, heapVars, queueRoots, retired, sinkVars, queueHist, mapHist >>

\* MarkablePtr tmp = atomic_load_acquire(&prev_hp->next); if (prev_next != tmp) ...
forEach_verify(t) ==
  /\ pc[t] = "fe_verify"
  /\ \E tmp \in ReadNext(lv[t].prev_hp.ptr_) :
       IF lv[t].prev_next # tmp
       THEN FE_Retry2(t, [lv[t] EXCEPT !.prev_next = tmp], hp[t])
       ELSE /\ lv' = [lv EXCEPT ![t].prot = @ \cup {lv[t].curr_hp.hp_}]
            /\ pc' = [pc EXCEPT ![t] = "fe_curr"]
            /\ hp' = hp
  /\ UNCHANGED << mainVars, heapVars, queueRoots, retired, sinkVars, queueHist, mapHist >>

\* forEach that calls function only when it was not skipping on arrival: the
\* node that ends the skipping is passed over.
forEach_curr_elseif(t) ==
  /\ pc[t] = "fe_curr"
  /\ \E cn \in ReadNext(lv[t].curr_hp.ptr_), ck \in ReadKey(lv[t].curr_hp.ptr_),
        cv \in ReadVal(lv[t].curr_hp.ptr_),
        sk \in (IF lv[t].skip_hp.ptr_ # Null THEN ReadKey(lv[t].skip_hp.ptr_) ELSE {0}) :
       LET l == [lv[t] EXCEPT !.curr_next = cn]
           over == l.skip_hp.ptr_ # Null /\ sk < ck
           l1 == IF over THEN ResetNull(l, "skip_hp") ELSE l
           h1 == IF over THEN [hp[t] EXCEPT ![l.skip_hp.hp_] = Null] ELSE hp[t]
           l2 == IF l.skip_hp.ptr_ = Null
                 THEN [l1 EXCEPT !.delivered = Append(@, << ck, cv >>)]
                 ELSE l1
       IN IF is_marked(cn)
          THEN /\ lv' = [lv EXCEPT ![t] = l]
               /\ pc' = [pc EXCEPT ![t] = "fe_unlink"]
               /\ hp' = hp
          ELSE FE_Retry3(t, [SwapHp(l2, "prev_hp", "curr_hp") EXCEPT !.prev_next = cn], h1)
  /\ UNCHANGED << mainVars, heapVars, queueRoots, retired, sinkVars, queueHist, mapHist >>

\* curr_next = atomic_load_acquire(&curr_hp->next); on an unmarked node: the
\* end of skipping when the key exceeds skip_hp's, the call of function unless
\* skipping, prev_hp.swap(curr_hp), prev_next = curr_next, retry3.
forEach_curr(t) ==
  /\ pc[t] = "fe_curr"
  /\ \E cn \in ReadNext(lv[t].curr_hp.ptr_), ck \in ReadKey(lv[t].curr_hp.ptr_),
        cv \in ReadVal(lv[t].curr_hp.ptr_),
        sk \in (IF lv[t].skip_hp.ptr_ # Null THEN ReadKey(lv[t].skip_hp.ptr_) ELSE {0}) :
       LET l == [lv[t] EXCEPT !.curr_next = cn]
           over == l.skip_hp.ptr_ # Null /\ sk < ck
           l1 == IF over THEN ResetNull(l, "skip_hp") ELSE l
           h1 == IF over THEN [hp[t] EXCEPT ![l.skip_hp.hp_] = Null] ELSE hp[t]
           l2 == IF l1.skip_hp.ptr_ = Null
                 THEN [l1 EXCEPT !.delivered = Append(@, << ck, cv >>)]
                 ELSE l1
       IN IF is_marked(cn)
          THEN /\ lv' = [lv EXCEPT ![t] = l]
               /\ pc' = [pc EXCEPT ![t] = "fe_unlink"]
               /\ hp' = hp
          ELSE FE_Retry3(t, [SwapHp(l2, "prev_hp", "curr_hp") EXCEPT !.prev_next = cn], h1)
  /\ UNCHANGED << mainVars, heapVars, queueRoots, retired, sinkVars, queueHist, mapHist >>

\* A forEach that steps over a marked curr without unlinking it.
forEach_unlink_skip(t) ==
  /\ pc[t] = "fe_unlink"
  /\ FE_Retry3(t, [SwapHp(lv[t], "prev_hp", "curr_hp") EXCEPT
                     !.prev_next = to_unmarked(lv[t].curr_next)], hp[t])
  /\ UNCHANGED << mainVars, heapVars, queueRoots, retired, sinkVars, queueHist, mapHist >>

\* the unlink of a marked curr in forEach, as in searchEqual
forEach_unlink(t) ==
  /\ pc[t] = "fe_unlink"
  /\ \E ok \in CasNext(lv[t].prev_hp.ptr_, lv[t].prev_next) :
       IF ok
       THEN /\ next' = SetNext(next, lv[t].prev_hp.ptr_, to_unmarked(lv[t].curr_next))
            /\ Retire(t, [lv[t] EXCEPT !.prev_next = to_unmarked(lv[t].curr_next)],
                      hp[t], "curr_hp", "fe_retry3")
       ELSE /\ pc' = [pc EXCEPT ![t] = "fe_retry1"]
            /\ UNCHANGED << next, retired, hp, lv >>
  /\ UNCHANGED << mainVars, live, used, val, key, queueRoots, sinkVars, queueHist, mapHist >>

\* retry3 after the unlink (and the flush its retire may have run)
forEach_retry3(t) ==
  /\ pc[t] = "fe_retry3"
  /\ FE_Retry3(t, lv[t], hp[t])
  /\ UNCHANGED << mainVars, heapVars, queueRoots, retired, sinkVars, queueHist, mapHist >>

\* ------------------------------------------------------------ specification
\* The state once every thread has built its hazard_context (the drivers do
\* so before the barrier) and the container is constructed: the queue holds
\* its dummy node, the map's sentinel points nowhere.
\* The registry once every thread has built its hazard_context: thread t has
\* the record t, linked at the head when it was created.
InitRegistry ==
  /\ local_record = [t \in Threads |-> t]
  /\ hazard_record_head_ = num_thread
  /\ record_next = [r \in Threads |-> r - 1]

InitCommon ==
  /\ InitRegistry
  /\ raises = {}
  /\ destroyed = {}
  /\ pool_ = Null
  /\ key = [a \in Cells |-> 0]
  /\ val = [a \in Cells |-> 0]
  /\ next = [a \in Cells |-> Null]
  /\ hp = [t \in Threads |-> AllNull]
  /\ retired = [t \in Threads |-> << >>]
  /\ active = [t \in Threads |-> 1]
  /\ hazard_bucket_head_ = [i \in 1..num_thread |-> num_thread + 1 - i]
  /\ global_retired_ = << >>
  /\ global_retired_mutex_ = 0
  /\ pc = [t \in Threads |-> "idle"]
  /\ lv = [t \in Threads |-> NoLocals]
  /\ absQ = << >>
  /\ enqd = EmptyBag
  /\ deqd = EmptyBag
  /\ deqOrder = << >>
  /\ printed = FALSE
  /\ seen = [t \in Threads |-> NoSeen]
  /\ refMap = absMap

FirstAddr == CHOOSE a \in Addr : \A b \in Addr : a <= b

InitQueue ==
  /\ prog \in {"queue", "pingpong"}
  /\ absMap = [k \in Keys |-> 0]
  /\ live = {FirstAddr}
  /\ used = {FirstAddr}
  /\ head_ = FirstAddr
  /\ tail_ = FirstAddr
  /\ InitCommon

HazardStep(t) ==
  \/ scanHp(t)
  \/ flushRetired(t)
  \/ clearLocalRecord(t)
  \/ deallocateRecord(t)

QueueStep(t) ==
  \/ load_from_read(t)
  \/ load_from_publish(t)
  \/ load_from_verify(t)
  \/ enqueue(t)
  \/ enqueue_next(t)
  \/ enqueue_help(t)
  \/ enqueue_link(t)
  \/ enqueue_swing(t)
  \/ dequeue(t)
  \/ dequeue_next(t)
  \/ dequeue_tail(t)
  \/ dequeue_help(t)
  \/ reset_without_fence(t)
  \/ dequeue_cas(t)
  \/ dequeue_receive(t)

NextQueue == \E t \in Threads : HazardStep(t) \/ QueueStep(t)

SpecQueue == InitQueue /\ [][NextQueue]_vars

\* The map programs start from a map some earlier puts have filled: the keys
\* of P, in ascending order at the lowest addresses, key k with value k.
RECURSIVE Rank(_, _)
Rank(P, k) == IF k = 0 THEN 0 ELSE Rank(P, k - 1) + (IF k \in P THEN 1 ELSE 0)
AddrOf(P, k) == 2 * Rank(P, k)
Succ(P, k) ==
  LET later == {j \in P : j > k}
  IN IF later = {} THEN Null
     ELSE AddrOf(P, CHOOSE j \in later : \A i \in later : j <= i)

InitMapWith(P, mode) ==
  /\ prog = mode
  /\ InitRegistry
  /\ raises = {}
  /\ destroyed = {}
  /\ pool_ = Null
  /\ live = {AddrOf(P, k) : k \in P}
  /\ used = live
  /\ key = [a \in Cells |-> IF \E k \in P : AddrOf(P, k) = a
                            THEN CHOOSE k \in P : AddrOf(P, k) = a ELSE 0]
  /\ val = key
  /\ next = [a \in Cells |->
       IF a = Sentinel THEN Succ(P, 0)
       ELSE IF \E k \in P : AddrOf(P, k) = a
            THEN Succ(P, CHOOSE k \in P : AddrOf(P, k) = a) ELSE Null]
  /\ head_ = Null
  /\ tail_ = Null
  /\ absMap = [k \in Keys |-> IF k \in P THEN k ELSE 0]
  /\ hp = [t \in Threads |-> AllNull]
  /\ retired = [t \in Threads |-> << >>]
  /\ active = [t \in Threads |-> IF mode = "mapseq" /\ t # 1 THEN 0 ELSE 1]
  /\ hazard_bucket_head_ = [i \in 1..num_thread |-> num_thread + 1 - i]
  /\ global_retired_ = << >>
  /\ global_retired_mutex_ = 0
  /\ lv = [t \in Threads |-> NoLocals]
  /\ absQ = << >>
  /\ enqd = EmptyBag
  /\ deqd = EmptyBag
  /\ deqOrder = << >>
  /\ printed = FALSE
  /\ seen = [t \in Threads |-> NoSeen]
  /\ refMap = absMap

InitMap ==
  /\ \E P \in SUBSET Keys : InitMapWith(P, "map")
  /\ pc = [t \in Threads |-> "idle"]

\* sortedlistmap_main.cc: one thread, run(), works on the map.  The records of
\* the other threads are in the registry as threads that left have them:
\* inactive, every slot null.
InitMapSeq ==
  /\ \E P \in SUBSET Keys : InitMapWith(P, "mapseq")
  /\ pc = [t \in Threads |-> IF t = 1 THEN "idle" ELSE "done"]

MapStep(t) ==
  \/ get(t)
  \/ put(t)
  \/ remove(t)
  \/ forEach(t)
  \/ searchEqual_retry1(t)
  \/ searchEqual_publish(t)
  \/ searchEqual_verify(t)
  \/ searchEqual_curr(t)
  \/ searchEqual_unlink(t)
  \/ searchEqual_retry3(t)
  \/ replaceCurrNode_mark(t)
  \/ replaceCurrNode_reread(t)
  \/ replaceCurrNode_unlink(t)
  \/ put_insert(t)
  \/ forEach_retry1(t)
  \/ forEach_publish(t)
  \/ forEach_verify(t)
  \/ forEach_curr(t)
  \/ forEach_unlink(t)
  \/ forEach_retry3(t)

NextMap == \E t \in Threads : HazardStep(t) \/ MapStep(t)

SpecMap == InitMap /\ [][NextMap]_vars

\* sortedlistmap_main.cc runs one thread: the steps that answer another
\* thread's mark (unlinking a marked node, re-reading after a lost CAS) have
\* no occasion there.
MapSeqStep(t) ==
  \/ get(t)
  \/ put(t)
  \/ remove(t)
  \/ forEach(t)
  \/ searchEqual_retry1(t)
  \/ searchEqual_publish(t)
  \/ searchEqual_verify(t)
  \/ searchEqual_curr(t)
  \/ replaceCurrNode_mark(t)
  \/ replaceCurrNode_unlink(t)
  \/ put_insert(t)
  \/ forEach_retry1(t)
  \/ forEach_publish(t)
  \/ forEach_verify(t)
  \/ forEach_curr(t)

NextMapSeq == \E t \in Threads : HazardStep(t) \/ MapSeqStep(t)

SpecMapSeq == InitMapSeq /\ [][NextMapSeq]_vars

\* Both containers over the one hazard-pointer core: the queue programs, and
\* the map program started on the map that holds every key.
Init ==
  \/ InitQueue
  \/ /\ InitMapWith(Keys, "map")
     /\ pc = [t \in Threads |-> "idle"]

Next == \E t \in Threads : HazardStep(t) \/ QueueStep(t) \/ MapStep(t)

Spec == Init /\ [][Next]_vars

\* ------------------------------------------------- QueueNodePoolAllocator
\* Queue<T, QueueNodePoolAllocator<T>>: the queue of the free program with the
\* pooling allocator.  Nodes come from allocate and go back through deallocate,
\* which the deleter of a retired node calls; a node is never given back to
\* the system while the queue lives.

\* newNodeAndValue once allocate has returned node a: the value is constructed
\* and QueueBase::enqueue starts, hazard_array<1> giving tail_hp slot 0.
Allocated(t, l, a) ==
  /\ val' = [val EXCEPT ![a] = EnqValue(t)]
  /\ hp' = [hp EXCEPT ![t] = AllNull]
  /\ lv' = [lv EXCEPT ![t] =
       LoadFrom([l EXCEPT !.node = a, !.seqno = @ + 1, !.nxt = Null, !.prot = {},
                          !.pool_hp = HazardPtr(0), !.tail_hp = HazardPtr(0)],
                "tail_hp", "tail_", "enq_next")]
  /\ pc' = [pc EXCEPT ![t] = "lf_read"]

\* return new value_type(): a node from the system, its next null.
NewValueType(t, l) ==
  \E a \in FreeChoices :
    /\ live' = live \cup {a}
    /\ used' = used \cup {a}
    /\ next' = [next EXCEPT ![a] = Null]
    /\ Allocated(t, l, a)

\* Queue::enqueue with the pool: allocate begins.
\* if (!atomic_load_relaxed(&pool_)) return new value_type();
\* otherwise hazard_array<1> gives pool_hp slot 0 and the loop starts.
allocate(t) ==
  /\ pc[t] = "idle"
  /\ prog = "queue" /\ lv[t].ops < Budget(t)
  /\ LET l == [lv[t] EXCEPT !.op = "enqueue", !.ops = @ + 1]
     IN IF pool_ = Null
        THEN NewValueType(t, l)
        ELSE /\ lv' = [lv EXCEPT ![t] =
                  LoadFrom([l EXCEPT !.pool_hp = HazardPtr(0)],
                           "pool_hp", "pool_", "alloc_next")]
             /\ pc' = [pc EXCEPT ![t] = "lf_read"]
             /\ UNCHANGED << heapVars, hp >>
  /\ UNCHANGED << mainVars, key, queueRoots, retired, sinkVars, queueHist, mapHist >>

\* if (!pool_hp.load_from(&pool_)) return new value_type();
\* NodeBase* next = atomic_load_relaxed(&pool_hp->next);
allocate_next(t) ==
  /\ pc[t] = "alloc_next"
  /\ IF lv[t].pool_hp.ptr_ = Null
     THEN NewValueType(t, lv[t])
     ELSE /\ \E n \in ReadNext(lv[t].pool_hp.ptr_) : lv' = [lv EXCEPT ![t].nxt = n]
          /\ pc' = [pc EXCEPT ![t] = "alloc_cas"]
          /\ UNCHANGED << heapVars, hp >>
  /\ UNCHANGED << mainVars, key, queueRoots, retired, sinkVars, queueHist, mapHist >>

\* A pop that installs the next it read with a plain store.
allocate_store_top(t) ==
  /\ pc[t] = "alloc_cas"
  /\ pool_' = lv[t].nxt
  /\ pc' = [pc EXCEPT ![t] = "alloc_store"]
  /\ lv' = lv
  /\ UNCHANGED << progVars, destroyed, heapVars, queueRoots, hp, retired, sinkVars,
                  queueHist, mapHist >>

\* if (atomic_compare_and_set(&pool_, pool_hp.get(), next)) ... else again
allocate_cas(t) ==
  /\ pc[t] = "alloc_cas"
  /\ IF pool_ = lv[t].pool_hp.ptr_
     THEN /\ pool_' = lv[t].nxt
          /\ pc' = [pc EXCEPT ![t] = "alloc_store"]
          /\ lv' = lv
     ELSE /\ pool_' = pool_
          /\ lv' = [lv EXCEPT ![t] =
               LoadFrom([@ EXCEPT !.nxt = Null], "pool_hp", "pool_", "alloc_next")]
          /\ pc' = [pc EXCEPT ![t] = "lf_read"]
  /\ UNCHANGED << progVars, destroyed, heapVars, queueRoots, hp, retired, sinkVars,
                  queueHist, mapHist >>

\* atomic_store_relaxed(&pool_hp->next, nullptr); return pool_hp.get():
\* ~hazard_array clears the slot and the caller has the node.
allocate_return(t) ==
  /\ pc[t] = "alloc_store"
  /\ next' = SetNext(next, lv[t].pool_hp.ptr_, Null)
  /\ Allocated(t, lv[t], lv[t].pool_hp.ptr_)
  /\ UNCHANGED << mainVars, live, used, key, queueRoots, retired, sinkVars,
                  queueHist, mapHist >>

\* The position in items of the first item the scan did not see, 0 if none:
\* deleteItems calls doDelete on the items in their order.
FirstUnscanned(scaned, items) ==
  IF \E i \in 1..Len(items) : items[i] \notin scaned
  THEN CHOOSE i \in 1..Len(items) :
         items[i] \notin scaned /\ \A j \in 1..(i - 1) : items[j] \in scaned
  ELSE 0

RemoveAt(items, i) == SubSeq(items, 1, i - 1) \o SubSeq(items, i + 1, Len(items))

\* deleteItems(scaned, retired) with the pool: doDelete on the next item of
\* the caller's queue that no slot held; its deleter calls deallocate.
deleteItems_retired(t) ==
  /\ pc[t] \in {"flush_delete", "dealloc_delete"}
  /\ LET i == FirstUnscanned(lv[t].scaned, retired[t])
     IN /\ i # 0
        /\ lv' = [lv EXCEPT ![t].obj = retired[t][i]]
        /\ retired' = [retired EXCEPT ![t] = RemoveAt(@, i)]
  /\ pc' = [pc EXCEPT ![t] = "dealloc_read"]
  /\ UNCHANGED << mainVars, heapVars, queueRoots, hp, sinkVars, queueHist, mapHist >>

\* deleteItems(scaned, global_retired_) with the pool, in deallocateRecord
\* once the record's own queue is done.
deleteItems_global(t) ==
  /\ pc[t] = "dealloc_delete"
  /\ FirstUnscanned(lv[t].scaned, retired[t]) = 0
  /\ LET i == FirstUnscanned(lv[t].scaned, global_retired_)
     IN /\ i # 0
        /\ lv' = [lv EXCEPT ![t].obj = global_retired_[i]]
        /\ global_retired_' = RemoveAt(global_retired_, i)
  /\ pc' = [pc EXCEPT ![t] = "dealloc_read"]
  /\ UNCHANGED << mainVars, heapVars, queueRoots, hp, retired, active, hazard_bucket_head_,
                  global_retired_mutex_, queueHist, mapHist >>

\* deallocate: p = atomic_load_relaxed(&pool_); node->next = p;
deallocate_read(t) ==
  /\ pc[t] = "dealloc_read"
  /\ lv' = [lv EXCEPT ![t].p = pool_]
  /\ next' = SetNext(next, lv[t].obj, pool_)
  /\ pc' = [pc EXCEPT ![t] = "dealloc_cas"]
  /\ UNCHANGED << mainVars, live, used, val, key, queueRoots, hp, retired, sinkVars,
                  queueHist, mapHist >>

\* while (!atomic_compare_and_set(&pool_, p, node)); then deleteItems goes on.
deallocate_cas(t) ==
  /\ pc[t] = "dealloc_cas"
  /\ IF pool_ = lv[t].p
     THEN /\ pool_' = lv[t].obj
          /\ lv' = [lv EXCEPT ![t].obj = Null, ![t].p = Null]
          /\ pc' = [pc EXCEPT ![t] = lv[t].after]
     ELSE /\ pool_' = pool_
          /\ lv' = lv
          /\ pc' = [pc EXCEPT ![t] = "dealloc_read"]
  /\ UNCHANGED << progVars, destroyed, heapVars, queueRoots, hp, retired, sinkVars,
                  queueHist, mapHist >>

\* HazardRoot::flushRetired with the pool, once deleteItems has gone through
\* the queue: the operation that retired goes on.
flushRetired_pool(t) ==
  /\ pc[t] = "flush_delete"
  /\ FirstUnscanned(lv[t].scaned, retired[t]) = 0
  /\ LET l == [lv[t] EXCEPT !.scaned = {}, !.scan_i = 0, !.after = "idle", !.ret = "idle"]
     IN IF lv[t].ret = "idle"
        THEN Return(t, l)
        ELSE /\ lv' = [lv EXCEPT ![t] = l]
             /\ pc' = [pc EXCEPT ![t] = lv[t].ret]
             /\ hp' = hp
  /\ UNCHANGED << mainVars, heapVars, queueRoots, retired, sinkVars, queueHist, mapHist >>

\* HazardRoot::deallocateRecord with the pool, once both deleteItems calls are
\* through: the survivors move to the sink, the mutex is released, the queue
\* cleared and the record marked inactive.
deallocateRecord_pool(t) ==
  /\ pc[t] = "dealloc_delete"
  /\ FirstUnscanned(lv[t].scaned, retired[t]) = 0
  /\ FirstUnscanned(lv[t].scaned, global_retired_) = 0
  /\ global_retired_' = global_retired_ \o retired[t]
  /\ retired' = [retired EXCEPT ![t] = << >>]
  /\ global_retired_mutex_' = 0
  /\ active' = [active EXCEPT ![t] = 0]
  /\ lv' = [lv EXCEPT ![t] = ExitLocals(@)]
  /\ pc' = [pc EXCEPT ![t] = "done"]
  /\ UNCHANGED << mainVars, heapVars, queueRoots, hp, hazard_bucket_head_, queueHist, mapHist >>

InitPool ==
  /\ prog = "queue"
  /\ absMap = [k \in Keys |-> 0]
  /\ live = {FirstAddr}
  /\ used = {FirstAddr}
  /\ head_ = FirstAddr
  /\ tail_ = FirstAddr
  /\ InitCommon

PoolStep(t) ==
  \/ allocate(t)
  \/ allocate_next(t)
  \/ allocate_cas(t)
  \/ allocate_return(t)
  \/ deleteItems_retired(t)
  \/ deleteItems_global(t)
  \/ deallocate_read(t)
  \/ deallocate_cas(t)
  \/ flushRetired_pool(t)
  \/ deallocateRecord_pool(t)
  \/ scanHp(t)
  \/ clearLocalRecord(t)
  \/ load_from_read(t)
  \/ load_from_publish(t)
  \/ load_from_verify(t)
  \/ enqueue_next(t)
  \/ enqueue_help(t)
  \/ enqueue_link(t)
  \/ enqueue_swing(t)
  \/ dequeue(t)
  \/ dequeue_next(t)
  \/ dequeue_tail(t)
  \/ dequeue_help(t)
  \/ reset_without_fence(t)
  \/ dequeue_cas(t)
  \/ dequeue_receive(t)

NextPool == \E t \in Threads : PoolStep(t)

SpecPool == InitPool /\ [][NextPool]_vars

\* A deleteItems that stops at the first item the scan saw.
deleteItems_prefix(scaned, items) ==
  LET stop == IF \E i \in 1..Len(items) : items[i] \in scaned
              THEN CHOOSE i \in 1..Len(items) :
                     items[i] \in scaned /\ \A j \in 1..(i - 1) : items[j] \notin scaned
              ELSE Len(items) + 1
  IN [ thrown |-> FALSE,
       items |-> SubSeq(items, stop, Len(items)),
       deleted |-> {items[j] : j \in 1..(stop - 1)} ]

\* ------------------------------------------------- a deleter that raises
\* HazardRoot::deleteItems(scaned, items) as written, for deleters that may
\* raise: doDelete is called from the loop over the queue (no slot scanned) or
\* from the predicate of std::remove_if, with no handler around it.  The first
\* unscanned item whose deleter raises ends the call: the exception leaves
\* deleteItems; the items before it that the scan did not see were deleted;
\* clear() or erase() has not run, so the vector keeps its length, the kept
\* items moved to its front by remove_if and the rest as it was.
FirstRaise(scaned, items) ==
  IF \E i \in 1..Len(items) : items[i] \notin scaned /\ items[i] \in raises
  THEN CHOOSE i \in 1..Len(items) :
         /\ items[i] \notin scaned /\ items[i] \in raises
         /\ \A j \in 1..(i - 1) : items[j] \in scaned \/ items[j] \notin raises
  ELSE 0

deleteItems(scaned, items) ==
  LET i == FirstRaise(scaned, items)
      before == SubSeq(items, 1, i - 1)
      kept == Kept(scaned, before)
  IN IF i = 0
     THEN [thrown |-> FALSE, items |-> Kept(scaned, items), deleted |-> Deleted(scaned, items)]
     ELSE [thrown |-> TRUE,
           items |-> IF scaned = {} THEN items
                     ELSE kept \o SubSeq(items, Len(kept) + 1, Len(items)),
           deleted |-> Deleted(scaned, before)]

\* HazardRoot::flushRetired after its scan, in a retire whose items may have
\* raising deleters: deleteItems runs; when a deleter raises the exception
\* leaves flushRetired, addRetired and retire (whether the object whose
\* deleter raised was released is up to that deleter).
flushRetired_raise(t) ==
  /\ prog = "deleter"
  /\ pc[t] = "flush_delete"
  /\ LET r == deleteItems(lv[t].scaned, retired[t])
     IN /\ retired' = [retired EXCEPT ![t] = r.items]
        /\ IF r.thrown
           THEN /\ \E gone \in SUBSET {retired[t][FirstRaise(lv[t].scaned, retired[t])]} :
                     DeleteCells(r.deleted \cup gone)
                /\ pc' = [pc EXCEPT ![t] = "thrown"]
                /\ UNCHANGED << hp, lv >>
           ELSE /\ DeleteCells(r.deleted)
                /\ Return(t, [lv[t] EXCEPT !.scaned = {}, !.scan_i = 0,
                                           !.after = "idle", !.ret = "idle"])
  /\ UNCHANGED << mainVars, queueRoots, sinkVars, queueHist, mapHist >>

\* The retirement queues of at most MaxRetired distinct objects.
Queues(S, n) ==
  UNION {{q \in [1..m -> S] : \A i \in 1..m, j \in 1..m : i # j => q[i] # q[j]} : m \in 0..n}

\* A thread in retire, at the threshold, its scan done: any queue of retired
\* objects, any set of them seen in slots, any set of raising deleters.
InitDeleter ==
  /\ prog = "deleter"
  /\ InitRegistry
  /\ raises \in SUBSET Addr
  /\ destroyed = {}
  /\ pool_ = Null
  /\ live = Addr
  /\ used = Addr
  /\ key = [a \in Cells |-> 0]
  /\ val = [a \in Cells |-> 0]
  /\ next = [a \in Cells |-> Null]
  /\ head_ = Null
  /\ tail_ = Null
  /\ hp = [t \in Threads |-> AllNull]
  /\ \E q \in Queues(Addr, MaxRetired) :
       retired = [t \in Threads |-> IF t = 1 THEN q ELSE << >>]
  /\ active = [t \in Threads |-> 1]
  /\ hazard_bucket_head_ = [i \in 1..num_thread |-> num_thread + 1 - i]
  /\ global_retired_ = << >>
  /\ global_retired_mutex_ = 0
  /\ pc = [t \in Threads |-> IF t = 1 THEN "flush_delete" ELSE "idle"]
  /\ \E sc \in SUBSET Addr :
       lv = [t \in Threads |-> IF t = 1 THEN [NoLocals EXCEPT !.scaned = sc] ELSE NoLocals]
  /\ absQ = << >>
  /\ enqd = EmptyBag
  /\ deqd = EmptyBag
  /\ deqOrder = << >>
  /\ printed = FALSE
  /\ absMap = [k \in Keys |-> 0]
  /\ seen = [t \in Threads |-> NoSeen]
  /\ refMap = absMap

NextDeleter == \E t \in Threads : flushRetired_raise(t)

SpecDeleter == InitDeleter /\ [][NextDeleter]_vars

\* ------------------------------------------------- threads that never leave
\* The steps of get, put and remove after the call.
SearchStep(t) ==
  \/ searchEqual_retry1(t)
  \/ searchEqual_publish(t)
  \/ searchEqual_verify(t)
  \/ searchEqual_curr(t)
  \/ searchEqual_unlink(t)
  \/ searchEqual_retry3(t)
  \/ replaceCurrNode_mark(t)
  \/ replaceCurrNode_reread(t)
  \/ replaceCurrNode_unlink(t)
  \/ put_insert(t)

\* The thread the schedule is about: the first one.
Running == CHOOSE t \in Threads : \A u \in Threads : t <= u

\* Clients of the map that never leave, as the threads of queue_hazard_main.cc
\* go round num_loop times: the running thread calls get(LoopKey) again and
\* again, every other thread put(LoopKey, v); every thread is scheduled again
\* and again.  The key is in the map from the start, so no put inserts, and
\* with one thread calling put no marking CAS fails.
InitLoop ==
  /\ InitMapWith({LoopKey}, "maploop")
  /\ pc = [t \in Threads |-> "idle"]

LoopStep(t) ==
  \/ scanHp(t)
  \/ flushRetired(t)
  \/ get(t) /\ t = Running /\ lv'[t].k = LoopKey
  \/ put(t) /\ t # Running /\ lv'[t].k = LoopKey
  \/ searchEqual_retry1(t)
  \/ searchEqual_publish(t)
  \/ searchEqual_verify(t)
  \/ searchEqual_curr(t)
  \/ searchEqual_unlink(t)
  \/ searchEqual_retry3(t)
  \/ replaceCurrNode_mark(t)
  \/ replaceCurrNode_unlink(t)

NextLoop == \E t \in Threads : LoopStep(t)

SpecLoop == InitLoop /\ [][NextLoop]_vars /\ \A t \in Threads : WF_vars(LoopStep(t))

\* The programs of enqueue, dequeue, get, put and remove where the first
\* thread is scheduled again and again while it has a step to take, and
\* nothing is assumed of the others: each of them may stop for good at any
\* point.
InitSolo ==
  \/ InitQueue /\ prog = "queue"
  \/ /\ InitMapWith(Keys, "map")
     /\ pc = [t \in Threads |-> "idle"]

SoloMapStep(t) == get(t) \/ put(t) \/ remove(t) \/ SearchStep(t)

SoloStep(t) == HazardStep(t) \/ QueueStep(t) \/ SoloMapStep(t)

NextSolo == \E t \in Threads : SoloStep(t)

SpecSolo == InitSolo /\ [][NextSolo]_vars /\ WF_vars(SoloStep(Running))

\* ------------------------------------------------------ the registry program
\* Threads that enter a hazard context, protect and retire objects, leave and
\* enter again: HazardRoot::allocateRecord and deallocateRecord with the
\* records told apart from the threads.  The records that exist are the
\* domain of active; record r owns hp[r] and retired[r].  The threads use one
\* hazard_ptr of a hazard_array<1>, so the other slots of a record stay null
\* and a scan reads the slots of one record in one step.
Records == 1..MaxRecords
Objs == {a \in Addr : a <= 2 * MaxObjs}
restVars == << prog, raises, destroyed, pool_, queueRoots, queueHist, mapHist >>

\* The records on the list from r on, in order.
RECURSIVE ListFrom(_, _)
ListFrom(r, n) ==
  IF r = Null \/ n = 0 THEN << >> ELSE << r >> \o ListFrom(record_next[r], n - 1)

Registry == ListFrom(hazard_record_head_, MaxRecords)
Linked == {Registry[i] : i \in 1..Len(Registry)}

\* The objects in some retirement queue or in the sink.
InSomeQueue ==
  UNION {{retired[r][i] : i \in 1..Len(retired[r])} : r \in DOMAIN retired}
    \cup {global_retired_[i] : i \in 1..Len(global_retired_)}

\* HazardRecord::getLocalRecord without a record: allocateRecord starts with
\* record = atomic_load_acquire(&hazard_record_head_).
getLocalRecord(t) ==
  /\ pc[t] = "out"
  /\ local_record[t] = Null
  /\ lv' = [lv EXCEPT ![t].record = hazard_record_head_]
  /\ pc' = [pc EXCEPT ![t] = "ar_read"]
  /\ UNCHANGED << restVars, registryVars, heapVars, hp, retired, sinkVars >>

\* while (record) { int active = atomic_load_relaxed(&record->active); ...
\* record = record->next; }
allocateRecord_read(t) ==
  /\ pc[t] = "ar_read"
  /\ LET r == lv[t].record
     IN IF r = Null
        THEN /\ pc' = [pc EXCEPT ![t] = "ar_new"]
             /\ lv' = lv
        ELSE IF active[r] = 0
             THEN /\ pc' = [pc EXCEPT ![t] = "ar_claim"]
                  /\ lv' = lv
             ELSE /\ lv' = [lv EXCEPT ![t].record = record_next[r]]
                  /\ pc' = pc
  /\ UNCHANGED << restVars, registryVars, heapVars, hp, retired, sinkVars >>

\* An allocateRecord that takes the record it read as inactive with a plain
\* store of active.
allocateRecord_claim_store(t) ==
  /\ pc[t] = "ar_claim"
  /\ active' = [active EXCEPT ![lv[t].record] = 1]
  /\ local_record' = [local_record EXCEPT ![t] = lv[t].record]
  /\ lv' = [lv EXCEPT ![t].record = Null]
  /\ pc' = [pc EXCEPT ![t] = "idle"]
  /\ UNCHANGED << restVars, hazard_record_head_, record_next, heapVars, hp, retired,
                  hazard_bucket_head_, global_retired_, global_retired_mutex_ >>

\* if (active == 0 && atomic_compare_and_set(&record->active, 0, 1)) return record;
allocateRecord_claim(t) ==
  /\ pc[t] = "ar_claim"
  /\ LET r == lv[t].record
     IN IF active[r] = 0
        THEN /\ active' = [active EXCEPT ![r] = 1]
             /\ local_record' = [local_record EXCEPT ![t] = r]
             /\ lv' = [lv EXCEPT ![t].record = Null]
             /\ pc' = [pc EXCEPT ![t] = "idle"]
        ELSE /\ lv' = [lv EXCEPT ![t].record = record_next[r]]
             /\ pc' = [pc EXCEPT ![t] = "ar_read"]
             /\ UNCHANGED << active, local_record >>
  /\ UNCHANGED << restVars, hazard_record_head_, record_next, heapVars, hp, retired,
                  hazard_bucket_head_, global_retired_, global_retired_mutex_ >>

\* record = new HazardRecord(): slots null, queue empty, active 1.
allocateRecord_new(t) ==
  /\ pc[t] = "ar_new"
  /\ Cardinality(DOMAIN active) < MaxRecords
  /\ LET r == Cardinality(DOMAIN active) + 1
     IN /\ active' = active @@ (r :> 1)
        /\ hp' = hp @@ (r :> AllNull)
        /\ retired' = retired @@ (r :> << >>)
        /\ record_next' = record_next @@ (r :> Null)
        /\ lv' = [lv EXCEPT ![t].record = r]
  /\ pc' = [pc EXCEPT ![t] = "ar_head"]
  /\ UNCHANGED << restVars, local_record, hazard_record_head_, heapVars,
                  hazard_bucket_head_, global_retired_, global_retired_mutex_ >>

\* head = atomic_load_relaxed(&hazard_record_head_); record->next = head;
allocateRecord_head(t) ==
  /\ pc[t] = "ar_head"
  /\ lv' = [lv EXCEPT ![t].head = hazard_record_head_]
  /\ record_next' = [record_next EXCEPT ![lv[t].record] = hazard_record_head_]
  /\ pc' = [pc EXCEPT ![t] = "ar_link"]
  /\ UNCHANGED << restVars, local_record, hazard_record_head_, heapVars, hp, retired, sinkVars >>

\* An allocateRecord that links its record with a plain store of the head.
allocateRecord_link_store(t) ==
  /\ pc[t] = "ar_link"
  /\ hazard_record_head_' = lv[t].record
  /\ local_record' = [local_record EXCEPT ![t] = lv[t].record]
  /\ lv' = [lv EXCEPT ![t].record = Null, ![t].head = Null]
  /\ pc' = [pc EXCEPT ![t] = "idle"]
  /\ UNCHANGED << restVars, record_next, heapVars, hp, retired, sinkVars >>

\* } while (!atomic_compare_and_set(&hazard_record_head_, head, record));
\* return record;
allocateRecord_link(t) ==
  /\ pc[t] = "ar_link"
  /\ IF hazard_record_head_ = lv[t].head
     THEN /\ hazard_record_head_' = lv[t].record
          /\ local_record' = [local_record EXCEPT ![t] = lv[t].record]
          /\ lv' = [lv EXCEPT ![t].record = Null, ![t].head = Null]
          /\ pc' = [pc EXCEPT ![t] = "idle"]
     ELSE /\ pc' = [pc EXCEPT ![t] = "ar_head"]
          /\ UNCHANGED << hazard_record_head_, local_record, lv >>
  /\ UNCHANGED << restVars, record_next, heapVars, hp, retired, sinkVars >>

\* hazard_ptr::reset(p): the slot is stored, then ptr_.
hazard_ptr_reset(t) ==
  /\ pc[t] = "idle"
  /\ \E p \in Objs :
       /\ p # lv[t].hazard_ptr.ptr_
       /\ hp' = [hp EXCEPT ![local_record[t]][0] = p]
       /\ lv' = [lv EXCEPT ![t].hazard_ptr.ptr_ = p]
  /\ UNCHANGED << restVars, registryVars, heapVars, retired, sinkVars, pc >>

\* ~hazard_array: the slots are stored null.
hazard_array_dtor(t) ==
  /\ pc[t] = "idle"
  /\ lv[t].hazard_ptr.ptr_ # Null
  /\ hp' = [hp EXCEPT ![local_record[t]][0] = Null]
  /\ lv' = [lv EXCEPT ![t].hazard_ptr.ptr_ = Null]
  /\ UNCHANGED << restVars, registryVars, heapVars, retired, sinkVars, pc >>

\* hazard_ptr::retire up to addRetired: obj = ptr_; reset().  The caller
\* retires what it alone has unlinked: an object nobody has retired.
retire_reset(t) ==
  /\ pc[t] = "idle"
  /\ LET obj == lv[t].hazard_ptr.ptr_
     IN /\ obj # Null =>
             /\ obj \in live
             /\ obj \notin InSomeQueue
             /\ \A u \in Threads : pc[u] = "add_retired" => lv[u].obj # obj
        /\ hp' = [hp EXCEPT ![local_record[t]][0] = Null]
        /\ lv' = [lv EXCEPT ![t].hazard_ptr.ptr_ = Null, ![t].obj = obj]
  /\ pc' = [pc EXCEPT ![t] = "add_retired"]
  /\ UNCHANGED << restVars, registryVars, heapVars, retired, sinkVars >>

\* The scan begins: the fence and bucket = atomic_load_acquire(&head).
RecordScanBegin(t, l, afterpc) ==
  /\ lv' = [lv EXCEPT ![t] = [l EXCEPT !.scaned = {}, !.bucket = hazard_record_head_,
                                        !.linked = Linked, !.visited = {},
                                        !.after = afterpc]]
  /\ pc' = [pc EXCEPT ![t] = IF hazard_record_head_ = Null THEN afterpc ELSE "scan"]

\* An addRetired that flushes only past the threshold.
addRetired_late(t) ==
  /\ pc[t] = "add_retired"
  /\ LET obj == lv[t].obj
         r == local_record[t]
         l == [lv[t] EXCEPT !.obj = Null]
     IN IF obj = Null
        THEN /\ lv' = [lv EXCEPT ![t] = l]
             /\ pc' = [pc EXCEPT ![t] = "idle"]
             /\ retired' = retired
        ELSE /\ retired' = [retired EXCEPT ![r] = Append(@, obj)]
             /\ IF Len(retired[r]) + 1 > FlushSize
                THEN RecordScanBegin(t, l, "flush")
                ELSE /\ lv' = [lv EXCEPT ![t] = l]
                     /\ pc' = [pc EXCEPT ![t] = "idle"]
  /\ UNCHANGED << restVars, registryVars, heapVars, hp, sinkVars >>

\* HazardRecord::addRetired: if (!obj) return; retired.push_back(...);
\* if (retired.size() >= HAZARD_FLUSH_SIZE) hazard_root.flushRetired(retired);
addRetired(t) ==
  /\ pc[t] = "add_retired"
  /\ LET obj == lv[t].obj
         r == local_record[t]
         l == [lv[t] EXCEPT !.obj = Null]
     IN IF obj = Null
        THEN /\ lv' = [lv EXCEPT ![t] = l]
             /\ pc' = [pc EXCEPT ![t] = "idle"]
             /\ retired' = retired
        ELSE /\ retired' = [retired EXCEPT ![r] = Append(@, obj)]
             /\ IF Len(retired[r]) + 1 >= FlushSize
                THEN RecordScanBegin(t, l, "flush")
                ELSE /\ lv' = [lv EXCEPT ![t] = l]
                     /\ pc' = [pc EXCEPT ![t] = "idle"]
  /\ UNCHANGED << restVars, registryVars, heapVars, hp, sinkVars >>

\* HazardRoot::scanHp, the slots of one record: for (const hp_t& h : ...->hp)
\* { p = atomic_load_relaxed(&h); if (p) scaned.push_back(p); } ... = ...->next
scanHp_record(t) ==
  /\ pc[t] = "scan"
  /\ LET b == lv[t].bucket
         nx == record_next[b]
     IN /\ lv' = [lv EXCEPT ![t].scaned = @ \cup NonNull(hp[b]),
                            ![t].visited = @ \cup {b},
                            ![t].bucket = nx]
        /\ pc' = [pc EXCEPT ![t] = IF nx = Null THEN lv[t].after ELSE "scan"]
  /\ UNCHANGED << restVars, registryVars, heapVars, hp, retired, sinkVars >>

\* HazardRoot::flushRetired after the scan: deleteItems(scaned, retired).
flushRetired_record(t) ==
  /\ pc[t] = "flush"
  /\ LET r == local_record[t]
         d == deleteItems(lv[t].scaned, retired[r])
     IN /\ DeleteCells(d.deleted)
        /\ retired' = [retired EXCEPT ![r] = d.items]
  /\ lv' = [lv EXCEPT ![t].after = "idle", ![t].bucket = Null]
  /\ pc' = [pc EXCEPT ![t] = "idle"]
  /\ UNCHANGED << restVars, registryVars, hp, sinkVars >>

\* HazardRecord::clearLocalRecord (every hazard_array is gone:
\* hp_reserved == 0) and deallocateRecord up to the scan under the mutex.
clearLocalRecord_record(t) ==
  /\ pc[t] = "idle"
  /\ lv[t].hazard_ptr.ptr_ = Null
  /\ global_retired_mutex_ = 0
  /\ global_retired_mutex_' = t
  /\ local_record' = [local_record EXCEPT ![t] = Null]
  /\ RecordScanBegin(t, [lv[t] EXCEPT !.record = local_record[t]], "dealloc")
  /\ UNCHANGED << restVars, hazard_record_head_, record_next, heapVars, hp, retired,
                  active, hazard_bucket_head_, global_retired_ >>

\* A deallocateRecord without record->retired.clear().
deallocateRecord_record_noclear(t) ==
  /\ pc[t] = "dealloc"
  /\ LET r == lv[t].record
         d == deleteItems(lv[t].scaned, retired[r])
         g == deleteItems(lv[t].scaned, global_retired_)
     IN /\ DeleteCells(d.deleted \cup g.deleted)
        /\ global_retired_' = g.items \o d.items
        /\ retired' = [retired EXCEPT ![r] = d.items]
  /\ global_retired_mutex_' = 0
  /\ pc' = [pc EXCEPT ![t] = "dealloc_active"]
  /\ UNCHANGED << restVars, registryVars, hp, active, hazard_bucket_head_, lv >>

\* deallocateRecord after the scan: deleteItems on the record's queue and on
\* global_retired_, the insert, the unlock, record->retired.clear().
deallocateRecord_record(t) ==
  /\ pc[t] = "dealloc"
  /\ LET r == lv[t].record
         d == deleteItems(lv[t].scaned, retired[r])
         g == deleteItems(lv[t].scaned, global_retired_)
     IN /\ DeleteCells(d.deleted \cup g.deleted)
        /\ global_retired_' = g.items \o d.items
        /\ retired' = [retired EXCEPT ![r] = << >>]
  /\ global_retired_mutex_' = 0
  /\ pc' = [pc EXCEPT ![t] = "dealloc_active"]
  /\ UNCHANGED << restVars, registryVars, hp, active, hazard_bucket_head_, lv >>

\* atomic_store_release(&record->active, 0)
deallocateRecord_active(t) ==
  /\ pc[t] = "dealloc_active"
  /\ active' = [active EXCEPT ![lv[t].record] = 0]
  /\ lv' = [lv EXCEPT ![t].record = Null, ![t].after = "idle", ![t].bucket = Null]
  /\ pc' = [pc EXCEPT ![t] = "out"]
  /\ UNCHANGED << restVars, registryVars, heapVars, hp, retired,
                  hazard_bucket_head_, global_retired_, global_retired_mutex_ >>

\* HazardRoot::HazardRoot: no record; the objects exist; no thread has a
\* hazard context yet.
InitRegistryProgram ==
  /\ prog = "registry"
  /\ local_record = [t \in Threads |-> Null]
  /\ hazard_record_head_ = Null
  /\ record_next = << >>
  /\ raises = {}
  /\ destroyed = {}
  /\ pool_ = Null
  /\ live = Objs
  /\ used = Objs
  /\ key = [a \in Cells |-> 0]
  /\ val = [a \in Cells |-> 0]
  /\ next = [a \in Cells |-> Null]
  /\ head_ = Null
  /\ tail_ = Null
  /\ hp = << >>
  /\ retired = << >>
  /\ active = << >>
  /\ hazard_bucket_head_ = << >>
  /\ global_retired_ = << >>
  /\ global_retired_mutex_ = 0
  /\ pc = [t \in Threads |-> "out"]
  /\ lv = [t \in Threads |-> NoLocals]
  /\ absQ = << >>
  /\ enqd = EmptyBag
  /\ deqd = EmptyBag
  /\ deqOrder = << >>
  /\ printed = FALSE
  /\ absMap = [k \in Keys |-> 0]
  /\ seen = [t \in Threads |-> NoSeen]
  /\ refMap = absMap

RegistryStep(t) ==
  \/ getLocalRecord(t)
  \/ allocateRecord_read(t)
  \/ allocateRecord_claim(t)
  \/ allocateRecord_new(t)
  \/ allocateRecord_head(t)
  \/ allocateRecord_link(t)
  \/ hazard_ptr_reset(t)
  \/ hazard_array_dtor(t)
  \/ retire_reset(t)
  \/ addRetired(t)
  \/ scanHp_record(t)
  \/ flushRetired_record(t)
  \/ clearLocalRecord_record(t)
  \/ deallocateRecord_record(t)
  \/ deallocateRecord_active(t)

NextRegistry == \E t \in Threads : RegistryStep(t)

SpecRegistry == InitRegistryProgram /\ [][NextRegistry]_vars

\* --------------------------------------------------------------- program exit
\* After main has joined the threads and returned, the destructors of the
\* static objects run: the container of the driver and hazard_root, which are
\* defined in different translation units, in either order.
Joined == \A t \in Threads : pc[t] = "done"

\* ~Queue: every node from head_ on is deleted, the values of those behind the
\* dummy destroyed first.
DestroyQueue ==
  /\ prog \in {"queue", "pingpong"}
  /\ Joined
  /\ "container" \notin destroyed
  /\ destroyed' = destroyed \cup {"container"}
  /\ LET w == WalkFrom(head_, NumAddrs + 1)
     IN DeleteCells({w[i] : i \in 1..Len(w)})
  /\ UNCHANGED << progVars, pool_, queueRoots, hp, retired, sinkVars, pc, lv, queueHist, mapHist >>

\* ~SortedListMap: every node from head_.next on is deleted, marked or not.
DestroySortedListMap ==
  /\ prog \in {"map", "mapseq"}
  /\ Joined
  /\ "container" \notin destroyed
  /\ destroyed' = destroyed \cup {"container"}
  /\ LET w == WalkFrom(to_unmarked(next[Sentinel]), NumAddrs + 1)
     IN DeleteCells({w[i] : i \in 1..Len(w)})
  /\ UNCHANGED << progVars, pool_, queueRoots, hp, retired, sinkVars, pc, lv, queueHist, mapHist >>

\* ~HazardRoot: the records and buckets are deleted, then doDelete runs on
\* every item of global_retired_, and the members are destroyed.
DestroyHazardRoot ==
  /\ Joined
  /\ "hazard_root" \notin destroyed
  /\ destroyed' = destroyed \cup {"hazard_root"}
  /\ DeleteCells({global_retired_[i] : i \in 1..Len(global_retired_)})
  /\ hazard_bucket_head_' = << >>
  /\ global_retired_' = << >>
  /\ UNCHANGED << progVars, pool_, queueRoots, hp, retired, active, global_retired_mutex_,
                  pc, lv, queueHist, mapHist >>

ExitStep == DestroyQueue \/ DestroySortedListMap \/ DestroyHazardRoot

NextExit == Next \/ ExitStep

SpecExit == Init /\ [][NextExit]_vars

\* ------------------------------------------------------------- properties
RECURSIVE Walk(_, _)
Walk(a, n) ==
  IF a = Null \/ n = 0 THEN << >>
  ELSE << a >> \o Walk(to_unmarked(next[a]), n - 1)

Range(s) == {s[i] : i \in 1..Len(s)}

RECURSIVE SeqBag(_)
SeqBag(s) == IF s = << >> THEN EmptyBag ELSE SetToBag({Head(s)}) (+) SeqBag(Tail(s))

RECURSIVE SumOver(_, _)
SumOver(f, S) ==
  IF S = {} THEN 0
  ELSE LET x == CHOOSE y \in S : TRUE IN f[x] + SumOver(f, S \ {x})

\* The nodes of the queue behind the dummy, and their values, head first.
QueueNodes == IF head_ = Null THEN << >> ELSE Tail(Walk(head_, NumAddrs + 1))
QueueContent == [i \in 1..Len(QueueNodes) |-> val[QueueNodes[i]]]

\* The nodes of the list behind the sentinel; the pairs of those not marked.
ListNodes == Tail(Walk(Sentinel, NumAddrs + 2))
ListLive == SelectSeq(ListNodes, LAMBDA a : ~is_marked(next[a]))
ListPairs == [i \in 1..Len(ListLive) |-> << key[ListLive[i]], val[ListLive[i]] >>]

RECURSIVE SortedPairs(_, _)
SortedPairs(m, k) ==
  IF k > NumKeys THEN << >>
  ELSE (IF m[k] # 0 THEN << << k, m[k] >> >> ELSE << >>) \o SortedPairs(m, k + 1)

Reachable ==
  Range(Walk(head_, NumAddrs + 1)) \cup Range(Walk(tail_, NumAddrs + 1)) \cup Range(ListNodes)

RetiredItems == UNION {Range(retired[t]) : t \in Threads} \cup Range(global_retired_)

Protected == UNION {{hp[t][i] : i \in lv[t].prot} : t \in Threads}

\* The items the deleteItems call a thread is about to make will delete.
ToDelete(t) ==
  IF pc[t] = "flush_delete" THEN Deleted(lv[t].scaned, retired[t])
  ELSE IF pc[t] = "dealloc_delete"
       THEN Deleted(lv[t].scaned, retired[t]) \cup Deleted(lv[t].scaned, global_retired_)
       ELSE {}

Quiescent == \A t \in Threads : pc[t] \in {"idle", "done"}

\* C1: an object whose pointer a thread holds in a validated hazard slot is
\* allocated, and no deleteItems call about to run, of any thread, deletes it,
\* also when another thread retired it after the protecting load returned.
HazardProtection ==
  /\ \A t \in Threads : \A i \in lv[t].prot : hp[t][i] \in live
  /\ \A t \in Threads : ToDelete(t) \cap Protected = {}

\* C1 witness: a thread is about to run deleteItems on a queue that holds an
\* object another thread protects; its scan has seen the slot.
HazardProtectionWitness ==
  \E t \in Threads, u \in Threads :
    /\ t # u
    /\ pc[t] = "flush_delete"
    /\ \E i \in lv[u].prot :
         hp[u][i] \in Range(retired[t]) /\ hp[u][i] \in lv[t].scaned

\* C2: every node reachable from head_ or tail_ of the queue or from the
\* sentinel of the list is allocated, and no node that is retired (in a
\* record's queue or in the global sink) is reachable: retirement follows the
\* CAS that unlinked the node.
ReachableNotReclaimed ==
  /\ Reachable \subseteq live
  /\ RetiredItems \cap Reachable = {}

\* C2 witness: a retired node that is not yet deleted still points into the
\* structure it was unlinked from.
ReachableNotReclaimedWitness ==
  \E a \in RetiredItems : a \in live /\ to_unmarked(next[a]) \in Reachable

\* C3: the queue is linearisable: with enqueue taking effect at its CAS on
\* tail_hp->next and dequeue at its CAS on head_, the chain behind head_ is
\* the FIFO queue of the values so ordered, a dequeue that won its CAS receives
\* the value that was then first, and a dequeue that finds the next field of
\* its head null (and returns false) does so while the queue is empty.
QueueLinearisable ==
  /\ absQ = QueueContent
  /\ \A t \in Threads :
       /\ pc[t] = "deq_receive" =>
            lv[t].result # 0 /\ ReadVal(lv[t].next_hp.ptr_) = {lv[t].result}
       /\ (pc[t] = "deq_next" /\ Null \in ReadNext(lv[t].head_hp.ptr_)) => absQ = << >>

\* C3 witness: one thread has won its head_ CAS and is about to receive the
\* value while another is about to return false from the node just made head.
QueueLinearisableWitness ==
  \E t \in Threads, u \in Threads :
    /\ t # u
    /\ pc[t] = "deq_receive"
    /\ pc[u] = "deq_next"
    /\ lv[u].head_hp.ptr_ = head_
    /\ next[head_] = Null

\* The values of the dequeues that won their CAS and have yet to receive.
RECURSIVE InHand(_)
InHand(S) ==
  IF S = {} THEN EmptyBag
  ELSE LET t == CHOOSE u \in S : TRUE
       IN SetToBag({val[lv[t].next_hp.ptr_]}) (+) InHand(S \ {t})

\* C4: the values whose enqueue linked a node are, as a multiset, the values
\* received, those of the dequeues that won their CAS and have yet to read,
\* and those still in the queue; when the ping-pong driver has ended the final
\* local values sum to num_thread * loop_count.
Conservation ==
  /\ enqd = deqd (+) SeqBag(QueueContent)
                 (+) InHand({t \in Threads : pc[t] = "deq_receive"})
  /\ (prog = "pingpong" /\ \A t \in Threads : pc[t] = "done") =>
       /\ QueueContent = << >>
       /\ SumOver([t \in Threads |-> lv[t].element], Threads) = num_thread * NumLoops

\* C4 witness: the ping-pong driver has ended and one thread holds a value
\* above its own number of increments: values went from thread to thread.
ConservationWitness ==
  /\ prog = "pingpong"
  /\ \A t \in Threads : pc[t] = "done"
  /\ \E t \in Threads : lv[t].element > NumLoops

\* C5: values enqueued by one thread, in the order of its calls, are dequeued
\* in that order, the order of dequeues being that of their CASes on head_.
PerProducerFifo ==
  prog = "queue" =>
    \A i \in 1..Len(deqOrder), j \in 1..Len(deqOrder) :
      (i < j /\ Producer(deqOrder[i]) = Producer(deqOrder[j])) => deqOrder[i] < deqOrder[j]

\* C5 witness: two values of one producer have been dequeued by two threads
\* whose dequeues are both still in progress.
PerProducerFifoWitness ==
  /\ prog = "queue"
  /\ Len(deqOrder) = 2
  /\ Producer(deqOrder[1]) = Producer(deqOrder[2])
  /\ \A t \in Threads : pc[t] = "deq_receive"

\* C6: in the driver, where every thread alternates enqueue and dequeue, no
\* dequeue returns false: "???" is never printed.
NeverEmptyInDriver == prog = "pingpong" => ~printed

\* C6 witness: in the driver a thread has dequeued the node another thread
\* linked and whose enqueue has not yet returned.
NeverEmptyInDriverWitness ==
  /\ prog = "pingpong"
  /\ \E t \in Threads, u \in Threads :
       /\ t # u
       /\ pc[t] = "deq_receive"
       /\ pc[u] = "enq_swing"
       /\ lv[t].next_hp.ptr_ = lv[u].node

\* What the operation thread t has returned from reported, against the states
\* its key went through during the call.
Consistent(t) ==
  LET l == lv[t]
      s == seen[t]
  IN CASE l.op = "get" ->
            IF l.res THEN l.out # 0 /\ l.out \in s.vals ELSE l.out = 0 /\ 0 \in s.vals
       [] l.op = "put" ->
            /\ s.fixed
            /\ IF l.res THEN l.out # 0 /\ s.vals = {l.out} ELSE l.out = 0 /\ s.vals = {0}
       [] l.op = "remove" ->
            IF l.res THEN s.fixed /\ l.out # 0 /\ s.vals = {l.out}
            ELSE ~s.fixed /\ l.out = 0 /\ 0 \in s.vals
       [] OTHER -> TRUE

\* C7: get, put and remove are linearisable per key: what an operation that
\* has returned reported is what the key held at an instant of the
\* operation's interval; for put and for a remove that found the key that
\* instant is its own first CAS, and the value handed out is the one replaced.
MapLinearisable ==
  prog = "map" => \A t \in Threads : pc[t] = "idle" => Consistent(t)

\* C7 witness: a get has returned a value although its key changed during
\* the call.
MapLinearisableWitness ==
  /\ prog = "map"
  /\ \E t \in Threads :
       /\ pc[t] = "idle"
       /\ lv[t].op = "get"
       /\ lv[t].res
       /\ Cardinality(seen[t].vals) >= 2

\* C8: when no operation is in progress the pairs of the unmarked nodes
\* reachable from the sentinel are those of the map as linearised.
QuiescentContent ==
  (prog = "map" /\ Quiescent) =>
    Range(ListPairs) = {<< k, absMap[k] >> : k \in {j \in Keys : absMap[j] # 0}}

\* C8 witness: no operation is in progress, a put of a thread has taken
\* effect and a marked node is still linked in the list.
QuiescentContentWitness ==
  /\ prog = "map"
  /\ Quiescent
  /\ \E k \in Keys : absMap[k] > NumKeys
  /\ \E a \in Range(ListNodes) : is_marked(next[a])

\* C9: run by one thread, get, put and remove return what a reference
\* ordered map returns (the result, and the value handed out exactly when
\* the result is true), the list holds the reference map's pairs in ascending
\* order, and forEach delivers them in that order.
SequentialReference ==
  \A t \in Threads :
    (prog = "mapseq" /\ pc[t] = "idle" /\ lv[t].op # "none") =>
      /\ lv[t].op \in {"get", "put", "remove"} =>
           /\ lv[t].res = lv[t].exp_res
           /\ lv[t].out = IF lv[t].exp_res THEN lv[t].exp_out ELSE 0
      /\ lv[t].op = "forEach" => lv[t].delivered = SortedPairs(refMap, 1)
      /\ ListPairs = SortedPairs(refMap, 1)

\* C9 witness: a forEach has delivered every key, one of them with a value a
\* put of the run stored.
SequentialReferenceWitness ==
  /\ prog = "mapseq"
  /\ pc[1] = "idle"
  /\ lv[1].op = "forEach"
  /\ Len(lv[1].delivered) = NumKeys
  /\ \E i \in 1..NumKeys : lv[1].delivered[i][2] > NumKeys

\* C10: the keys one call of forEach delivers are strictly increasing, also
\* across its restarts from the sentinel.
ForEachIncreasing ==
  \A t \in Threads :
    \A i \in 1..Len(lv[t].delivered), j \in 1..Len(lv[t].delivered) :
      i < j => lv[t].delivered[i][1] < lv[t].delivered[j][1]

\* C10 witness: a forEach that restarted is skipping and meets a node that
\* is not the one it delivered but carries the same key.
ForEachIncreasingWitness ==
  \E t \in Threads :
    /\ pc[t] = "fe_curr"
    /\ lv[t].delivered # << >>
    /\ lv[t].skip_hp.ptr_ \in live
    /\ lv[t].curr_hp.ptr_ \in live
    /\ lv[t].curr_hp.ptr_ # lv[t].skip_hp.ptr_
    /\ key[lv[t].curr_hp.ptr_] = key[lv[t].skip_hp.ptr_]

\* The keys a forEach call of thread t has passed to function.
DeliveredKeys(t) == {lv[t].delivered[i][1] : i \in 1..Len(lv[t].delivered)}

\* C11: a key that was in the map at every instant of a forEach call (it may
\* have been replaced, never absent) has been passed to function when the
\* call returns.
ForEachAtLeastOnce ==
  \A t \in Threads :
    (prog = "map" /\ pc[t] = "idle" /\ lv[t].op = "forEach") =>
      (Keys \ seen[t].gone) \subseteq DeliveredKeys(t)

\* C11 witness: a forEach has returned; during it one key was absent at some
\* instant and another, never absent, was delivered with a value that a put
\* has replaced since.
ForEachAtLeastOnceWitness ==
  \E t \in Threads :
    /\ prog = "map"
    /\ pc[t] = "idle"
    /\ lv[t].op = "forEach"
    /\ seen[t].gone # {}
    /\ \E i \in 1..Len(lv[t].delivered) :
         /\ lv[t].delivered[i][1] \notin seen[t].gone
         /\ lv[t].delivered[i][2] # absMap[lv[t].delivered[i][1]]

\* C12: walking next from the sentinel and ignoring the marked nodes, the keys
\* are strictly increasing; no two unmarked reachable nodes carry one key.
ListSorted ==
  prog = "map" =>
    \A i \in 1..Len(ListLive), j \in 1..Len(ListLive) :
      i < j => key[ListLive[i]] < key[ListLive[j]]

\* C12 witness: a put has marked a node and linked its replacement behind it,
\* the marked node is still reachable, and an unmarked node precedes both.
ListSortedWitness ==
  /\ prog = "map"
  /\ \E i \in 2..(Len(ListNodes) - 1) :
       /\ is_marked(next[ListNodes[i]])
       /\ ~is_marked(next[ListNodes[i + 1]])
       /\ ~is_marked(next[ListNodes[i - 1]])
       /\ key[ListNodes[i]] = key[ListNodes[i + 1]]

\* C13: the mark is monotone: once the mark bit of a node's next field is set,
\* no step clears it while the node is allocated.
MarkMonotone ==
  [][\A a \in Addr :
       (a \in live /\ a \in live' /\ is_marked(next[a])) => is_marked(next'[a])]_vars

\* C13 witness: a thread is about to CAS the next field of a node that has been
\* marked since the thread read it (to insert behind it or to unlink its
\* successor).
MarkMonotoneWitness ==
  /\ prog = "map"
  /\ \E t \in Threads :
       /\ pc[t] \in {"put_insert", "se_unlink", "fe_unlink"}
       /\ lv[t].prev_hp.ptr_ \in live
       /\ is_marked(next[lv[t].prev_hp.ptr_])

ContainerNodes ==
  IF prog \in {"queue", "pingpong"} THEN Range(WalkFrom(head_, NumAddrs + 1))
  ELSE Range(WalkFrom(to_unmarked(next[Sentinel]), NumAddrs + 1))

\* C15: nothing leaks and nothing is destroyed twice.  No deleteItems call
\* deletes a node that is not allocated; a record that was deactivated has an
\* empty queue, what it could not free being in global_retired_; once every
\* thread has destroyed its hazard context the allocated nodes are exactly
\* those of the container and of global_retired_, each once; the destructors
\* of the container and of hazard_root delete their share, and after both no
\* node is allocated.
NoLeak ==
  /\ \A t \in Threads : ToDelete(t) \subseteq live
  /\ \A t \in Threads : pc[t] = "done" => retired[t] = << >>
  /\ Joined =>
       /\ live = (IF "container" \in destroyed THEN {} ELSE ContainerNodes)
                 \cup Range(global_retired_)
       /\ "container" \notin destroyed => ContainerNodes \cap Range(global_retired_) = {}
       /\ \A i \in 1..Len(global_retired_), j \in 1..Len(global_retired_) :
            i # j => global_retired_[i] # global_retired_[j]
       /\ destroyed = {"container", "hazard_root"} => live = {}

\* C15 witness: every thread has left, the container and hazard_root are
\* destroyed, and every address had been allocated and more nodes were
\* allocated than the container started with.
NoLeakWitness ==
  /\ Joined
  /\ destroyed = {"container", "hazard_root"}
  /\ used = Addr
  /\ live = {}

\* The nodes of the free stack, top first.
PoolNodes == WalkFrom(pool_, NumAddrs + 1)

\* Thread t has a node from allocate that its enqueue has not linked yet.
HandedOut(t) ==
  /\ lv[t].op = "enqueue"
  /\ lv[t].node # Null
  /\ pc[t] \in {"lf_read", "lf_publish", "lf_verify", "enq_next", "enq_help", "enq_link"}

\* The nodes thread u protects by a validated load: all of them, and those it
\* validated against head_ or tail_ (in allocate, before the node is handed
\* out, the only protected load is that of pool_).
ProtectedBy(u) == {hp[u][i] : i \in lv[u].prot}
QueueProtectedBy(u) ==
  IF lv[u].op = "enqueue" /\ lv[u].node = Null THEN {} ELSE ProtectedBy(u)

\* Where a node of the pooled queue can be: held by one thread between two
\* of its steps (handed out and not linked, popped and not returned, being
\* pushed, or unlinked by a dequeue and not retired yet), as a sequence.
RECURSIVE HeldBy(_)
HeldBy(S) ==
  IF S = {} THEN << >>
  ELSE LET t == CHOOSE u \in S : TRUE
       IN (IF HandedOut(t) THEN << lv[t].node >> ELSE << >>) \o
          (IF pc[t] = "alloc_store" THEN << lv[t].pool_hp.ptr_ >> ELSE << >>) \o
          (IF pc[t] \in {"dealloc_read", "dealloc_cas"} THEN << lv[t].obj >> ELSE << >>) \o
          (IF pc[t] = "deq_receive" THEN << lv[t].head_hp.ptr_ >> ELSE << >>) \o
          retired[t] \o HeldBy(S \ {t})

\* Every node of the pooled queue is in one place: the chain from head_, the
\* free stack, a retirement queue or the sink, or a thread's hands.
Placement == Walk(head_, NumAddrs + 1) \o PoolNodes \o global_retired_ \o HeldBy(Threads)

\* What C16 states apart from hazard slots: a node handed out is not linked
\* in the queue, not in the free stack and in no other caller's hands; the CAS
\* of a pop succeeds only with the next field of the top as it is; the free
\* stack ends in null and every allocated node is in exactly one place; the
\* queue stays the FIFO queue of the values and a dequeue reads its value.
PoolSound ==
  /\ \A t \in Threads : HandedOut(t) =>
       /\ lv[t].node \notin Range(Walk(head_, NumAddrs + 1))
       /\ lv[t].node \notin Range(PoolNodes)
       /\ \A u \in Threads \ {t} : HandedOut(u) => lv[u].node # lv[t].node
  /\ \A t \in Threads :
       (pc[t] = "alloc_cas" /\ pool_ = lv[t].pool_hp.ptr_) => lv[t].nxt = next[pool_]
  /\ Len(PoolNodes) <= NumAddrs
  /\ Range(Placement) = live
  /\ Len(Placement) = Cardinality(live)
  /\ absQ = QueueContent
  /\ \A t \in Threads : pc[t] = "deq_receive" => val[lv[t].next_hp.ptr_] = lv[t].result

\* C16 as stated: with QueueNodePoolAllocator, allocate never hands out a node
\* that is linked in the queue, in the free stack, protected by another
\* thread's hazard slot or handed to another caller; a pop's CAS succeeds only
\* when the next it read is the successor of the top; the stack neither loses
\* nor duplicates nodes and dequeued values are not corrupted.
PoolAbaSafeAsStated ==
  /\ PoolSound
  /\ \A t \in Threads : HandedOut(t) =>
       \A u \in Threads \ {t} : lv[t].node \notin ProtectedBy(u)

\* C16 amended: as stated, but of the hazard slots of other threads only
\* those validated against head_ or tail_ never hold a node that is handed
\* out; a thread in allocate may still hold the node in the slot it validated
\* against pool_, and then its CAS on pool_ fails.
PoolAbaSafe ==
  /\ PoolSound
  /\ \A t \in Threads : HandedOut(t) =>
       \A u \in Threads \ {t} :
         /\ lv[t].node \notin QueueProtectedBy(u)
         /\ (pc[u] = "alloc_cas" /\ lv[u].pool_hp.ptr_ = lv[t].node) => pool_ # lv[t].node

\* C16 witness: a thread has been handed a node popped from the free stack
\* while another thread, in allocate, protects that node by the slot it
\* validated against pool_ and is about to CAS pool_.
PoolAbaSafeWitness ==
  \E t \in Threads, u \in Threads :
    /\ t # u
    /\ HandedOut(t)
    /\ pc[u] = "alloc_cas"
    /\ lv[u].pool_hp.ptr_ = lv[t].node
    /\ lv[t].node \in ProtectedBy(u)

\* C19: a deleter that raises during a flush is caught and discarded: the
\* flush leaves in the queue exactly the items the scan saw, the failing item
\* not among them, every other unscanned item is deleted, and retire returns
\* normally.
DeleterFailureSwallowed ==
  [][\A t \in Threads :
       (prog = "deleter" /\ pc[t] = "flush_delete") =>
         /\ pc'[t] = "idle"
         /\ retired'[t] = Kept(lv[t].scaned, retired[t])
         /\ \A a \in Deleted(lv[t].scaned, retired[t]) \ raises : a \notin live']_vars

\* How often object a is in the retirement queues and the sink together.
RECURSIVE Occurrences(_, _)
Occurrences(a, q) ==
  IF q = << >> THEN 0
  ELSE (IF Head(q) = a THEN 1 ELSE 0) + Occurrences(a, Tail(q))

RECURSIVE Concat(_, _)
Concat(f, S) ==
  IF S = {} THEN << >>
  ELSE LET t == CHOOSE u \in S : TRUE IN f[t] \o Concat(f, S \ {t})

AllRetired == Concat(retired, Threads) \o global_retired_

RetiredCount(a) == Occurrences(a, AllRetired)

\* C20: retirement is one-shot.  An object is at most once in the retirement
\* queues and the sink taken together, and while it is there it has not been
\* deleted; a deleteItems call deletes allocated objects only; two dequeues
\* that won their CAS on head_ hold different nodes to retire, none of them
\* retired already; and a step that adds an object to a queue adds one that
\* was in none, is allocated, and is out of the structure after the step (the
\* step is, or follows, the CAS that unlinked it).
RetireOnce ==
  /\ [](/\ Len(AllRetired) = Cardinality(RetiredItems)
        /\ RetiredItems \subseteq live
        /\ \A t \in Threads : ToDelete(t) \subseteq live
        /\ \A t \in Threads : pc[t] = "deq_receive" =>
             /\ lv[t].head_hp.ptr_ \notin RetiredItems
             /\ \A u \in Threads \ {t} :
                  pc[u] = "deq_receive" => lv[u].head_hp.ptr_ # lv[t].head_hp.ptr_)
  /\ [][\/ retired' = retired /\ global_retired_' = global_retired_
       \/ \A a \in Addr :
            RetiredCount(a)' > RetiredCount(a) =>
              /\ RetiredCount(a) = 0
              /\ a \in live
              /\ a \notin Reachable']_vars

\* C20 witness: both threads have an object in their retirement queue, each
\* its own, and one of the two objects is held in a hazard slot of the other
\* thread.
RetireOnceWitness ==
  \E t \in Threads, u \in Threads :
    /\ t # u
    /\ retired[t] # << >>
    /\ retired[u] # << >>
    /\ \E i \in Slots : hp[u][i] \in Range(retired[t])

\* Thread t is inside an operation of the container (not between operations,
\* not leaving its hazard context).
Pending(t) == pc[t] \notin {"idle", "done"} /\ lv[t].after # "dealloc_delete"

\* Thread t goes round a loop again: of load_from, enqueue or dequeue; in
\* searchEqual the goto retry2 after the re-read, the goto retry1 after the
\* failed CAS or from a marked prev_next; the loop of put after its failed
\* CAS; the do-while around replaceCurrNode.
RetryStep(t) ==
  \/ pc[t] \in {"enq_help", "enq_link", "deq_cas"} /\ pc'[t] = "lf_read"
  \/ pc[t] = "lf_verify" /\ pc'[t] = "lf_publish"
  \/ pc[t] = "se_verify" /\ pc'[t] \notin {"se_verify", "se_curr"}
  \/ pc[t] \in {"se_unlink", "put_insert"} /\ pc'[t] = "se_retry1"
  \/ pc[t] = "se_retry1" /\ pc'[t] = "se_retry1" /\ lv'[t] # lv[t]
  \/ pc[t] = "rc_mark" /\ pc'[t] = "rc_reread"

\* A word this iteration of t read no longer has the value it read.
ChangedSinceRead(t) ==
  CASE pc[t] = "lf_verify" -> SrcVal(lv[t].src) # lv[t].p1
    [] pc[t] = "deq_cas" -> head_ # lv[t].head_hp.ptr_
    [] pc[t] \in {"enq_help", "enq_link"} ->
         tail_ # lv[t].tail_hp.ptr_ \/ next[lv[t].tail_hp.ptr_] # lv[t].nxt
    [] pc[t] \in {"se_verify", "se_unlink", "se_retry1"} ->
         next[lv[t].prev_hp.ptr_] # lv[t].prev_next
    [] pc[t] = "put_insert" -> next[lv[t].prev_hp.ptr_] # lv[t].curr_hp.ptr_
    [] pc[t] = "rc_mark" -> next[lv[t].curr_hp.ptr_] # lv[t].curr_next
    [] OTHER -> FALSE

\* The running thread completes the operation it is in, wherever the others
\* have stopped: it is never inside one operation for ever.
SoloCompletes == []<>(~Pending(Running))

\* C18 as stated: a thread that keeps running completes its operation
\* whatever point the others are suspended at, and it goes round a loop again
\* only when another thread has changed a word since this iteration read it.
LockFreeAsStated ==
  /\ SoloCompletes
  /\ [][\A t \in Threads : RetryStep(t) => ChangedSinceRead(t)]_vars

\* C18 amended: a thread that keeps running completes its operation whatever
\* point the others are suspended at, and it goes round a loop again only
\* when another thread has changed a word since this iteration read it or
\* when, in enqueue, it found tail_hp->next non-null (a link whose owner has
\* not advanced tail_): it then advances tail_ itself before going round.
LockFree ==
  /\ SoloCompletes
  /\ [][\A t \in Threads :
         RetryStep(t) =>
           \/ ChangedSinceRead(t)
           \/ pc[t] = "enq_help" /\ lv[t].nxt # Null /\ tail_' = lv[t].nxt]_vars

\* C18 witness: the running thread, in enqueue, has found tail_hp->next
\* non-null while the thread that linked the node has not advanced tail_, and
\* nothing has changed since it read.
LockFreeWitness ==
  \E u \in Threads \ {Running} :
    /\ pc[Running] = "enq_help"
    /\ pc[u] = "enq_swing"
    /\ tail_ = lv[Running].tail_hp.ptr_
    /\ lv[Running].nxt = lv[u].node

\* A step of another thread than t stores to the next field of some node.
Interference(t) ==
  /\ pc'[t] = pc[t] /\ lv'[t] = lv[t]
  /\ \E a \in Cells : next'[a] # next[a]

Owned(t) ==
  IF local_record[t] # Null THEN local_record[t]
  ELSE IF \/ pc[t] \in {"ar_head", "ar_link", "dealloc", "dealloc_active"}
          \/ pc[t] = "scan" /\ lv[t].after = "dealloc"
       THEN lv[t].record
       ELSE Null

\* C21: no two threads hold the same record, and a held record is active; a
\* thread gets a record only by changing its active from 0 to 1 or by linking
\* a record it created at the head of the registry.
RecordExclusive ==
  /\ [](\A t \in Threads :
          Owned(t) # Null =>
            /\ active[Owned(t)] = 1
            /\ \A u \in Threads \ {t} : Owned(u) # Owned(t))
  /\ [][\A t \in Threads :
         local_record'[t] \notin {Null, local_record[t]} =>
           LET r == local_record'[t]
           IN \/ r \in Linked /\ active[r] = 0 /\ active'[r] = 1
              \/ /\ r \notin Linked /\ lv[t].record = r /\ active[r] = 1
                 /\ hazard_record_head_' = r
                 /\ record_next[r] = hazard_record_head_]_vars

\* C21 witness: two threads have read the same record as inactive and are
\* both about to CAS its active.
RecordExclusiveWitness ==
  \E t, u \in Threads :
    /\ t # u
    /\ pc[t] = "ar_claim" /\ pc[u] = "ar_claim"
    /\ lv[t].record = lv[u].record
    /\ active[lv[t].record] = 0

\* The dequeue of thread t returns false.
ReturnsFalse(t) == pc[t] = "deq_next" /\ pc'[t] = "idle"

\* What the return of false leaves alone, and the caller's slots after it.
FalseFrame(t) ==
  /\ head_' = head_ /\ tail_' = tail_ /\ next' = next /\ live' = live
  /\ absQ' = absQ /\ deqd' = deqd /\ deqOrder' = deqOrder
  /\ retired' = retired /\ global_retired_' = global_retired_
  /\ hp'[t] = AllNull

LoadFromPost ==
  [][\A t \in Threads :
       pc[t] = "lf_verify" =>
         LET hpf == lv[t].hf
             slot == lv[t][hpf].hp_
         IN /\ pc'[t] \notin {"lf_verify", "lf_publish"} =>
                 LET p == lv'[t][hpf].ptr_
                 IN /\ SrcVal(lv[t].src) = p
                    /\ hp[t][slot] = p
                    /\ hp'[t][slot] = p
            /\ pc'[t] = "lf_publish" =>
                 /\ SrcVal(lv[t].src) # lv[t].p1
                 /\ lv'[t].p1 = SrcVal(lv[t].src)
                 /\ lv'[t][hpf].ptr_ = lv[t][hpf].ptr_]_vars

\* C23 witness: one thread is at its second read with the source unchanged
\* and its slot holding the node, another at its second read with the source
\* changed since its first.
LoadFromPostWitness ==
  \E t, u \in Threads :
    /\ pc[t] = "lf_verify" /\ pc[u] = "lf_verify"
    /\ lv[t].p1 # Null
    /\ SrcVal(lv[t].src) = lv[t].p1
    /\ hp[t][lv[t][lv[t].hf].hp_] = lv[t].p1
    /\ SrcVal(lv[u].src) # lv[u].p1

\* C24: a flush partitions the caller's retirement queue by the result of its
\* scan (the addresses the scan read from hazard slots): every item the scan
\* saw stays in the queue, undeleted and in its original relative order; every
\* other item is deleted, once, and leaves the queue; when the scan saw no
\* address the queue becomes empty.
FlushPartition ==
  [][\A t \in Threads :
       pc[t] = "flush_delete" /\ pc'[t] # "flush_delete" =>
         LET q == retired[t]
             q2 == retired'[t]
             sc == lv[t].scaned
         IN /\ \A i \in 1..Len(q) :
                 IF q[i] \in sc
                 THEN /\ q[i] \in live'
                      /\ \E j \in 1..Len(q2) : q2[j] = q[i]
                 ELSE /\ q[i] \in live
                      /\ q[i] \notin live'
                      /\ \A j \in 1..Len(q2) : q2[j] # q[i]
            /\ Len(q2) = Cardinality({i \in 1..Len(q) : q[i] \in sc})
            /\ \A j1, j2 \in 1..Len(q2) :
                 j1 < j2 => \E i1, i2 \in 1..Len(q) :
                              i1 < i2 /\ q[i1] = q2[j1] /\ q[i2] = q2[j2]
            /\ live \ live' \subseteq {q[i] : i \in 1..Len(q)}
            /\ sc = {} => q2 = << >>]_vars

\* A flush is about to run on a queue of which the scan saw two items.
FlushPartitionWitness ==
  \E t \in Threads :
    /\ pc[t] = "flush_delete"
    /\ \E i, j \in 1..Len(retired[t]) :
         /\ i < j
         /\ retired[t][i] \in lv[t].scaned
         /\ retired[t][j] \in lv[t].scaned

\* C25: retire on a hazard_ptr holding p clears the hazard slot first, then
\* appends exactly one item for p to the queue of the calling thread's record,
\* and starts a flush exactly when the queue has reached the flush threshold
\* after the append; below the threshold no scan starts and nothing is
\* deleted; retiring a hazard_ptr that holds null appends nothing.
RetireAppendsThenFlushes ==
  [][\A t \in Threads :
       /\ pc[t] = "idle" /\ pc'[t] = "add_retired" =>
            /\ hp'[local_record[t]][lv[t].hazard_ptr.hp_] = Null
            /\ lv'[t].obj = lv[t].hazard_ptr.ptr_
            /\ lv'[t].hazard_ptr.ptr_ = Null
            /\ retired' = retired
            /\ live' = live
       /\ pc[t] = "add_retired" /\ pc'[t] # "add_retired" =>
            LET r == local_record[t]
                obj == lv[t].obj
            IN /\ hp[r][lv[t].hazard_ptr.hp_] = Null
               /\ live' = live
               /\ \A r2 \in DOMAIN retired : r2 # r => retired'[r2] = retired[r2]
               /\ IF obj = Null
                  THEN retired'[r] = retired[r] /\ pc'[t] = "idle"
                  ELSE /\ retired'[r] = Append(retired[r], obj)
                       /\ IF Len(retired'[r]) >= FlushSize
                          THEN pc'[t] = "scan" /\ lv'[t].after = "flush"
                          ELSE pc'[t] = "idle"]_vars

\* A retire is about to append the item that brings the queue to the
\* threshold, after an append below the threshold left an item that another
\* thread still protects.
RetireAppendsThenFlushesWitness ==
  \E t, u \in Threads :
    /\ pc[t] = "add_retired" /\ lv[t].obj # Null
    /\ Len(retired[local_record[t]]) + 1 = FlushSize
    /\ Len(retired[local_record[t]]) > 0
    /\ u # t /\ local_record[u] # Null
    /\ retired[local_record[t]][1] \in NonNull(hp[local_record[u]])

\* C26: the activation flag of a record is set to 0 only after all its hazard
\* slots are null and its retirement queue is empty, every leftover item
\* having been deleted by the final scan or moved into global_retired_ under
\* the mutex; so an inactive record has null slots and an empty queue, and a
\* thread that claims it by CAS 0 to 1 finds no slot value and no item in it.
DeactivationOrder ==
  [][/\ \A r \in DOMAIN active :
          /\ active'[r] # active[r] => hp[r] = AllNull /\ retired[r] = << >>
          /\ active'[r] = 0 => hp'[r] = AllNull /\ retired'[r] = << >>
     /\ \A t \in Threads :
          pc[t] = "dealloc" /\ pc'[t] = "dealloc_active" =>
            /\ global_retired_mutex_ = t
            /\ \A i \in 1..Len(retired[lv[t].record]) :
                 LET a == retired[lv[t].record][i]
                 IN IF a \in lv[t].scaned
                    THEN /\ a \in live'
                         /\ \E j \in 1..Len(global_retired_') : global_retired_'[j] = a
                    ELSE a \notin live']_vars

\* A thread is about to claim an inactive record whose last owner left an
\* item, now in global_retired_, that another thread protected.
DeactivationOrderWitness ==
  \E t \in Threads :
    /\ pc[t] = "ar_claim"
    /\ active[lv[t].record] = 0
    /\ global_retired_ # << >>

NextSurvivesCas ==
  [][\A t \in Threads :
       LET n == lv[t].next_hp.ptr_
       IN /\ pc[t] = "deq_cas" /\ pc'[t] = "deq_receive" =>
               /\ n = lv[t].nxt /\ head_' = n
               /\ hp[t][lv[t].next_hp.hp_] = n
               /\ n \in live
               /\ \A u \in Threads : n \notin Range(retired[u])
               /\ n \notin Range(global_retired_)
          /\ pc[t] = "deq_receive" =>
               /\ n \in live
               /\ hp[t][lv[t].next_hp.hp_] = n
               /\ pc'[t] # "deq_receive" => deqd' = deqd (+) SetToBag({val[n]})]_vars

\* Between the CAS and the reset of a dequeuer, another thread has dequeued
\* past the node in next_hp and retired it, and is about to flush.
NextSurvivesCasWitness ==
  \E t, u \in Threads :
    /\ pc[t] = "deq_receive"
    /\ pc[u] = "flush_delete"
    /\ lv[t].next_hp.ptr_ \in Range(retired[u])
    /\ head_ # lv[t].next_hp.ptr_

\* searchEqual returns to its caller in this step.
SearchReturns(t) ==
  /\ pc[t] \in {"se_retry1", "se_verify", "se_curr", "se_retry3"}
  /\ pc'[t] \in {"idle", "rc_mark", "put_insert"}

\* searchEqual returns in this step with a node in curr_hp.
ReturnsWithCurr(t) ==
  /\ SearchReturns(t)
  /\ pc[t] = "se_curr"
  /\ ~(key[lv[t].curr_hp.ptr_] < lv[t].k)

\* C29 as stated: there is one instant, that of the read of curr's next which
\* gave curr_next, at which prev's next points to curr_hp's node.
SearchPostAsStated ==
  [][\A t \in Threads :
       ReturnsWithCurr(t) => next[lv[t].prev_hp.ptr_] = lv[t].curr_hp.ptr_]_vars

\* C29: when searchEqual returns with a node in curr_hp, then at the instant of
\* its last re-read of prev's next, prev_hp's node was unmarked (or the
\* sentinel) with a key below key, its next pointed to curr_hp's node, and that
\* node was unmarked; curr_next is the unmarked value of curr's next read at
\* the later instant of the return, curr's key is not below key, and the
\* result is true iff it equals key.  When it returns with curr_hp null, prev's
\* next was null at an instant of the call (the read, or the unlinking CAS,
\* that gave prev_next).  Both nodes are in the two hazard slots on return.
SearchPost ==
  [][\A t \in Threads :
       LET l == lv[t]
           p == l.prev_hp.ptr_
           c == l.curr_hp.ptr_
           last == IF pc[t] = "se_curr" THEN l.curr_hp ELSE l.prev_hp
       IN /\ ReturnsWithCurr(t) =>
               /\ l.inst.linked /\ l.inst.unmarked
               /\ p = Sentinel \/ (p \in live /\ key[p] < l.k /\ hp[t][l.prev_hp.hp_] = p)
               /\ c \in live /\ hp[t][l.curr_hp.hp_] = c
               /\ ~is_marked(next[c])
               /\ CASE l.op = "get" -> pc'[t] = "idle" /\ lv'[t].res = (key[c] = l.k)
                    [] l.op = "put" -> pc'[t] = IF key[c] = l.k THEN "rc_mark" ELSE "put_insert"
                    [] l.op = "remove" ->
                         IF key[c] = l.k THEN pc'[t] = "rc_mark"
                         ELSE pc'[t] = "idle" /\ ~lv'[t].res
               /\ pc'[t] # "idle" =>
                    /\ lv'[t].curr_next = next[c]
                    /\ lv'[t].prev_hp = l.prev_hp /\ lv'[t].curr_hp = l.curr_hp
                    /\ hp'[t] = hp[t]
          /\ SearchReturns(t) /\ ~ReturnsWithCurr(t) =>
               /\ IF pc[t] = "se_retry3" THEN l.prev_next = Null ELSE next[last.ptr_] = Null
               /\ \/ last.ptr_ = Sentinel
                  \/ /\ last.ptr_ \in live /\ key[last.ptr_] < l.k
                     /\ hp[t][last.hp_] = last.ptr_
               /\ CASE l.op = "put" -> pc'[t] = "put_insert"
                    [] OTHER -> pc'[t] = "idle" /\ ~lv'[t].res
               /\ pc'[t] # "idle" =>
                    /\ lv'[t].prev_hp = last
                    /\ lv'[t].curr_hp.ptr_ = Null
                    /\ hp'[t][lv'[t].curr_hp.hp_] = Null
          /\ pc[t] = "se_unlink" /\ pc'[t] \notin {"se_unlink", "se_retry1"} =>
               /\ next'[p] = to_unmarked(l.curr_next)
               /\ lv'[t].prev_next = to_unmarked(l.curr_next)
               /\ lv'[t].prev_hp = l.prev_hp]_vars

\* searchEqual is about to return curr_hp's node, read unmarked, although
\* another thread has changed prev's next since the re-read.
SearchPostWitness ==
  \E t \in Threads :
    /\ pc[t] = "se_curr"
    /\ lv[t].curr_hp.ptr_ \in live
    /\ ~is_marked(next[lv[t].curr_hp.ptr_])
    /\ ~(key[lv[t].curr_hp.ptr_] < lv[t].k)
    /\ next[lv[t].prev_hp.ptr_] # lv[t].curr_hp.ptr_

\* C30: searchEqual and forEach never advance past a node whose next they read
\* marked: they go on to the CAS on the predecessor's next, which either
\* unlinks the node, which is then retired, or fails and sends them back to
\* re-read; so a marked node left reachable by a put or remove whose own unlink
\* CAS failed is unlinked by a later traversal, and when a forEach that ran
\* with no concurrent operation returns, no marked node is reachable from the
\* sentinel.
TraversersUnlink ==
  [][\A t \in Threads :
       LET l == lv[t]
           p == l.prev_hp.ptr_
           c == l.curr_hp.ptr_
           traversing == {"se_retry1", "se_publish", "se_verify", "se_curr", "se_unlink",
                          "se_retry3", "fe_retry1", "fe_publish", "fe_verify", "fe_curr",
                          "fe_unlink", "fe_retry3", "scanHp", "flush_delete"}
       IN /\ pc[t] \in {"se_curr", "fe_curr"} /\ pc'[t] # pc[t] /\ is_marked(next[c]) =>
               /\ pc'[t] = IF pc[t] = "se_curr" THEN "se_unlink" ELSE "fe_unlink"
               /\ lv'[t].prev_hp = l.prev_hp /\ lv'[t].curr_hp = l.curr_hp
               /\ lv'[t].curr_next = next[c]
          /\ pc[t] \in traversing /\ pc'[t] \in traversing
               /\ lv'[t].prev_hp.ptr_ \notin {p, Sentinel, Null} =>
               /\ pc[t] \in {"se_curr", "fe_curr"}
               /\ lv'[t].prev_hp.ptr_ = c
               /\ ~is_marked(next[c])
          /\ pc[t] \in {"se_unlink", "fe_unlink"} /\ pc'[t] # pc[t] =>
               IF next[p] = l.prev_next
               THEN /\ next'[p] = to_unmarked(l.curr_next)
                    /\ retired'[t] = Append(retired[t], c)
                    /\ lv'[t].prev_hp = l.prev_hp
                    /\ c \notin Range(ListNodes)'
               ELSE /\ pc'[t] = IF pc[t] = "se_unlink" THEN "se_retry1" ELSE "fe_retry1"
                    /\ next' = next /\ retired' = retired
          /\ l.op = "forEach" /\ l.solo /\ pc[t] # "idle" /\ pc'[t] = "idle" =>
               \A a \in Range(ListNodes) : ~is_marked(next[a])]_vars

\* A forEach that runs alone is about to unlink a marked node that the
\* operation which marked it left reachable.
TraversersUnlinkWitness ==
  \E t \in Threads :
    /\ pc[t] = "fe_unlink"
    /\ lv[t].solo
    /\ lv[t].curr_hp.ptr_ \in Range(ListNodes)
    /\ is_marked(next[lv[t].curr_hp.ptr_])
    /\ next[lv[t].prev_hp.ptr_] = lv[t].prev_next

\* C31: tail_ never points to a node that has been retired (or freed) and is
\* always reachable from head_, never behind it, although dequeue goes on to
\* its CAS of head_ right after the helping CAS on tail_ without reading tail_
\* again: when that CAS of head_ succeeds tail_ is already off the old head;
\* so the protected load of tail_ in enqueue never validates a pointer to a
\* node that is retired or freed.
TailNeverRetired ==
  [][/\ tail_ \in live /\ tail_' \in live
     /\ tail_ \notin RetiredItems /\ tail_' \notin RetiredItems'
     /\ tail_ \in Range(Walk(head_, NumAddrs + 1))
     /\ tail_' \in Range(Walk(head_', NumAddrs + 1))
     /\ \A t \in Threads :
          /\ pc[t] = "deq_cas" /\ pc'[t] = "deq_receive" =>
               /\ tail_ # lv[t].head_hp.ptr_
               /\ lv[t].head_hp.ptr_ = lv[t].tl => tail_ # lv[t].tl
          /\ pc[t] = "lf_verify" /\ lv[t].src = "tail_" /\ pc'[t] \notin {"lf_verify", "lf_read", "lf_publish"} =>
               /\ lv[t].p1 = tail_
               /\ lv[t].p1 \in live
               /\ lv[t].p1 \notin RetiredItems]_vars

\* A dequeue that found head_ equal to tail_ has done its helping CAS and is
\* about to move head_ off that node, which it will then retire, while the
\* enqueue that linked the successor still holds that node as its tail.
TailNeverRetiredWitness ==
  \E t, u \in Threads :
    /\ pc[t] = "deq_cas"
    /\ lv[t].head_hp.ptr_ = lv[t].tl
    /\ head_ = lv[t].head_hp.ptr_
    /\ pc[u] = "enq_swing"
    /\ lv[u].tail_hp.ptr_ = lv[t].tl

\* C32: once the next field of a node is marked it never changes again while
\* the node exists (every CAS on a next field expects an unmarked value), and
\* the next field of the sentinel is never marked; so a CAS that would insert
\* behind, or unlink the successor of, a logically deleted predecessor fails,
\* and no node is linked behind a deleted node.
MarkedNextFrozen ==
  [][/\ \A a \in Addr :
          (a \in live /\ a \in live' /\ is_marked(next[a])) => next'[a] = next[a]
     /\ ~is_marked(next[Sentinel]) /\ ~is_marked(next'[Sentinel])
     /\ \A t \in Threads :
          LET p == lv[t].prev_hp.ptr_
          IN /\ pc[t] \in {"put_insert", "se_unlink", "fe_unlink"} /\ pc'[t] # pc[t]
                  /\ is_marked(next[p]) =>
                  /\ next'[p] = next[p]
                  /\ pc'[t] = IF pc[t] = "fe_unlink" THEN "fe_retry1" ELSE "se_retry1"
                  /\ retired' = retired
             /\ pc[t] = "rc_unlink" /\ pc'[t] # pc[t] /\ is_marked(next[p]) =>
                  /\ next' = next
                  /\ retired' = retired
             /\ pc[t] = "rc_mark" /\ pc'[t] # pc[t]
                  /\ is_marked(next[lv[t].curr_hp.ptr_]) =>
                  /\ pc'[t] = "rc_reread"
                  /\ next'[lv[t].curr_hp.ptr_] = next[lv[t].curr_hp.ptr_]]_vars

\* A put is about to try to insert its node behind a node that another thread
\* has marked since the put read it, and whose next still leads to curr.
MarkedNextFrozenWitness ==
  \E t \in Threads :
    /\ pc[t] = "put_insert"
    /\ lv[t].prev_hp.ptr_ \in live
    /\ is_marked(next[lv[t].prev_hp.ptr_])
    /\ to_unmarked(next[lv[t].prev_hp.ptr_]) = lv[t].curr_hp.ptr_

=============================================================================
